---- MODULE Spec2Model ----
(***************************************************************************)
(* Model of the profile-run orchestrator of resticprofile (wrapper.go):    *)
(* runProfile, lockRun, runOnFailure, the hook sequencer and the retry     *)
(* policy.  One run of the wrapper ("Self") is modelled in full; a second  *)
(* runProfile attempt on the same lock path ("Other") runs the same        *)
(* lockRun code around an opaque body.                                     *)
(*                                                                         *)
(* Durations are integers in an abstract time unit.                        *)
(***************************************************************************)
EXTENDS Integers, Sequences, FiniteSets, TLC

(***************************************************************************)
(* Bounds of the model                                                     *)
(***************************************************************************)
MaxHooks == 2       \* length of a non-empty hook list
MaxDur == 1         \* longest duration of one engine invocation
MaxLockWait == 5    \* largest lockWait budget
MaxRuns == 2        \* calls of runProfile on one wrapper
MaxConnects == 3    \* calls of taskmaster.Connect
MaxTasks == 2       \* task names used with the Task Scheduler
MaxCalls == 2       \* calls of ignoreLock and maxWaitOnLock before the run

(***************************************************************************)
(* Program constants                                                       *)
(***************************************************************************)
LockSleep == 3                  \* lockRun: sleep := 3 * time.Second
WarningExitCode == 3            \* canSucceedAfterError: ExitCode() == 3
MinResticLockRetryTime == 2     \* constants.MinResticLockRetryTime
MaxResticLockRetryTime == 4     \* constants.MaxResticLockRetryTime
MinResticStaleLockAge == 2      \* constants.MinResticStaleLockAge

NIL == -1           \* a nil *time.Duration, an absent lock age, a non-exit error
Interrupted == -2   \* the runner's error after a forwarded signal killed the child
NoHolder == 0       \* the lock file does not exist
Self == 1
Other == 2
Procs == {Self, Other}

CommandBackup == "backup"
CommandInit == "init"
CommandCopy == "copy"
CommandCheck == "check"
CommandForget == "forget"
CommandUnlock == "unlock"
CommandSnapshots == "snapshots"
SectionConfigurationRetention == "retention"
Commands == {CommandBackup, CommandInit, CommandCopy, CommandSnapshots}

HookLists == {"run-before", "backup.run-before", "backup.run-after", "run-after",
              "run-after-fail", "backup.run-finally", "run-finally"}

\* mutant of Phases: check-after called before retention-after
PhasesSwapped ==
    <<"run-before", "init", "copy-init", "backup.run-before", "check-before",
      "retention-before", "main", "check-after", "retention-after",
      "backup.run-after", "run-after">>

\* the phases of the guarded body of runProfile, in source order
Phases == <<"run-before", "init", "copy-init", "backup.run-before", "check-before",
            "retention-before", "main", "retention-after", "check-after",
            "backup.run-after", "run-after">>
PhaseSet == {Phases[i] : i \in 1..Len(Phases)}
PhaseIndex(ph) == CHOOSE i \in 1..Len(Phases) : Phases[i] = ph
HookPhases == {"run-before", "backup.run-before", "backup.run-after", "run-after"}

VARIABLES
    cfg,            \* the immutable Profile / Global / caller settings of Self
    env,            \* the environment of the run: lock directory, Other's arguments
    pc,             \* pc[p]: position of process p
    lockFile,       \* holder named by the lock file, NoHolder when it does not exist
    lockWait,       \* lockWait[p]: lockRun's parameter lockWait (set to nil when exhausted)
    start,          \* start[p]: lockRun's local start
    success,        \* success[p]: lockRun's local success (Release is deferred)
    result,         \* result[p]: what runProfile returned
    now,            \* wall clock
    startTime,      \* r.startTime
    executionTime,  \* r.executionTime
    doneTryUnlock,  \* r.doneTryUnlock
    idx,            \* index of the next hook of the current hook list
    err,            \* err of runOnFailure: the failed phase, or "nil"
    panicking,      \* the body panicked and the stack is unwinding
    deferred,       \* defer stack of runFinalCommand
    trace,          \* child processes started and callbacks called, in order
    progress,       \* the Summary calls received by a progress receiver, in order
    released,       \* released[p]: calls of runLock.Release() by lockRun of p
    run,            \* number of the current call of runProfile on the wrapper
    called,         \* the calls of ignoreLock and maxWaitOnLock made on the wrapper
    args,           \* the local args of the running invocation loop: <<>> outside of
                    \* a loop, else the one argument builder made before the loop
    lockLog,        \* the steps of Self's lockRun in the current call, in order
    spent,          \* time taken by the children of the wrapper so far: engine
                    \* invocations, those of them of the init passes, and hooks
    taskService,    \* schtasks: the package variable taskService
    tasks,          \* schtasks: the tasks registered with the Task Scheduler
    ret             \* schtasks: the last public function called and what it returned

vars == <<cfg, env, pc, lockFile, lockWait, start, success, result, now, startTime,
          executionTime, doneTryUnlock, idx, err, panicking, deferred, trace,
          progress, released, run, called, args, lockLog, spent, taskService, tasks, ret>>

wrapperVars == <<startTime, executionTime, doneTryUnlock>>
bodyVars == <<idx, err, panicking, deferred, trace>>
schVars == <<taskService, tasks, ret>>
callVars == <<progress, released, run, called, args, schVars>>
logVars == <<lockLog, spent>>

Min(a, b) == IF a < b THEN a ELSE b
Max(a, b) == IF a > b THEN a ELSE b

(***************************************************************************)
(* Configurations: the profiles, globals and caller settings explored      *)
(***************************************************************************)
BaseCfg ==
    [command |-> CommandBackup,
     globalInitialize |-> FALSE, profileInitialize |-> FALSE, copyInitialize |-> FALSE,
     hasBackup |-> TRUE, checkBefore |-> FALSE, checkAfter |-> FALSE,
     noErrorOnWarning |-> FALSE, retentionBefore |-> FALSE, retentionAfter |-> FALSE,
     hooks |-> [l \in HookLists |-> 0],
     forceLock |-> FALSE, staleLockAge |-> 0, lockRetryAfter |-> 0,
     lockWait |-> NIL, noLock |-> FALSE, dryRun |-> FALSE,
     moreArgs |-> <<"more">>, sources |-> <<"source">>]

BaseEnv == [dirCreatable |-> TRUE, otherPresent |-> FALSE, otherForce |-> FALSE,
            otherLockWait |-> NIL, maxDur |-> 0, reuse |-> FALSE, signals |-> FALSE,
            remoteLocks |-> FALSE, setters |-> FALSE]

\* an environment in which an engine invocation may take time and may find the
\* repository locked
SlowEnv == [BaseEnv EXCEPT !.maxDur = MaxDur, !.remoteLocks = TRUE]

LockWaits == {NIL, 2, MaxLockWait}

\* the combinations of empty and non-empty hook lists with at most four
\* non-empty lists
HookCfgs ==
    {[BaseCfg EXCEPT !.command = c, !.hooks = h] :
        c \in {CommandBackup, CommandSnapshots},
        h \in {g \in [HookLists -> {0, MaxHooks}] :
                 Cardinality({l \in HookLists : g[l] > 0}) <= 4}}

\* every combination of the flags that enable a phase; for a command other
\* than backup the backup-only flags are all unset or all set
PhaseFlags ==
    {<<b[1], b[1] /\ b[2], b[1] /\ b[3], b[1] /\ b[4], r[1], r[2]>> :
        b \in [1..4 -> BOOLEAN], r \in [1..2 -> BOOLEAN]}
PhaseCfg(c, f, b) ==
    [BaseCfg EXCEPT !.command = c, !.globalInitialize = f[1], !.profileInitialize = f[2],
                    !.copyInitialize = f[3], !.hasBackup = b[1], !.checkBefore = b[2],
                    !.checkAfter = b[3], !.noErrorOnWarning = b[4],
                    !.retentionBefore = b[5], !.retentionAfter = b[6],
                    !.hooks = [l \in HookLists |->
                                 IF l \in {"run-before", "run-after-fail", "run-finally"}
                                 THEN 1 ELSE 0]]
PhaseCfgs ==
    {PhaseCfg(t[1], t[2], t[3]) :
        t \in {u \in Commands \X [1..3 -> BOOLEAN] \X PhaseFlags :
                 /\ u[2][3] => u[1] = CommandCopy
                 /\ u[1] # CommandBackup => \A i \in 1..6 : u[3][i] = u[3][1]}}

\* the settings read by the retry policy (lockRetryAfter is read only with a
\* lockWait budget, forceLock only with stale detection enabled); a check
\* precedes the backup (with the small budget or none), or warnings of the
\* backup are no errors, or neither
RetryCfg(k, w, f, a, ra, lw) ==
    [BaseCfg EXCEPT !.checkBefore = k, !.noErrorOnWarning = w, !.forceLock = f,
                    !.staleLockAge = a, !.lockRetryAfter = ra, !.lockWait = lw]
RetryCfgs ==
    {RetryCfg(t[1], t[2], t[3], t[4], t[5], t[6]) :
        t \in {u \in BOOLEAN \X BOOLEAN \X BOOLEAN \X {0, 1, 3} \X {0, 1, 3, 5} \X LockWaits :
                 /\ u[6] = NIL => u[5] = 0
                 /\ u[4] = 0 => ~u[3]
                 /\ u[2] => ~u[1]
                 /\ u[1] => u[6] # MaxLockWait}}

\* the arguments of lockRun, for two attempts on the same lock path; a
\* wrapper that ignores the lock has no budget (ignoreLock)
LockCfgs ==
    {[BaseCfg EXCEPT !.command = CommandSnapshots, !.forceLock = f,
                     !.lockWait = IF s = 1 THEN NIL ELSE lw,
                     !.noLock = s = 1, !.dryRun = s = 2,
                     !.hooks = [l \in HookLists |-> IF l = "run-finally" THEN 1 ELSE 0]] :
        f \in BOOLEAN, lw \in LockWaits, s \in 0..2}
LockEnvs ==
    {[dirCreatable |-> d, otherPresent |-> TRUE, otherForce |-> f, otherLockWait |-> lw,
      maxDur |-> 0, reuse |-> FALSE, signals |-> FALSE, remoteLocks |-> FALSE,
      setters |-> FALSE] :
        d \in BOOLEAN, f \in BOOLEAN, lw \in LockWaits}

\* the phase configurations in dry-run
DryCfgs == {[c EXCEPT !.dryRun = TRUE] : c \in PhaseCfgs}

\* a wrapper on which the caller calls runProfile again: the settings that let
\* a run try an unlock
ReuseEnv == [SlowEnv EXCEPT !.reuse = TRUE]
ReuseCfgs == {RetryCfg(FALSE, FALSE, TRUE, 1, 0, NIL)}

\* an environment in which a termination signal may arrive while a child runs:
\* phase configurations with the initialize pass, and one with a lockWait budget
SignalEnv == [BaseEnv EXCEPT !.signals = TRUE]
SignalCfgs ==
    {c \in PhaseCfgs : /\ c.globalInitialize /\ ~c.profileInitialize
                       /\ c.checkBefore = c.checkAfter
                       /\ c.retentionBefore = c.retentionAfter
                       /\ ~c.noErrorOnWarning}
    \cup {RetryCfg(FALSE, FALSE, FALSE, 0, 3, MaxLockWait)}

\* an environment in which hooks and engine invocations may take time
TimeEnv == [BaseEnv EXCEPT !.maxDur = MaxDur]

\* runs in which hooks, the initialize passes and the engine may all take
\* time: a backup with check and retention, and a copy with both init passes
TimeCfgs ==
    {PhaseCfg(CommandBackup, <<TRUE, FALSE, FALSE>>, <<TRUE, TRUE, FALSE, FALSE, FALSE, TRUE>>),
     PhaseCfg(CommandCopy, <<TRUE, FALSE, TRUE>>, <<FALSE, FALSE, FALSE, FALSE, FALSE, FALSE>>)}

\* a backup preceded by retention, under the retry policy
RetentionCfgs ==
    {[RetryCfg(FALSE, FALSE, TRUE, 1, 1, 2) EXCEPT !.retentionBefore = TRUE]}

\* the retry loop of a backup without extra arguments of the user, and that of
\* a command that is not backup
ArgsCfgs ==
    {[RetryCfg(FALSE, FALSE, FALSE, 0, 1, 2) EXCEPT !.moreArgs = <<>>],
     [RetryCfg(FALSE, FALSE, FALSE, 0, 1, 2) EXCEPT !.command = CommandSnapshots]}

\* a wrapper as newResticWrapper makes it, on which the caller calls
\* ignoreLock and maxWaitOnLock before the run; the engine may report remote
\* locks, its invocations take no time, and the configuration asks for a
\* retry after 1
SetterEnv == [BaseEnv EXCEPT !.remoteLocks = TRUE, !.setters = TRUE]
SetterCfgs == {RetryCfg(FALSE, FALSE, FALSE, 0, 1, NIL)}
SetterDurations == {0, MaxLockWait}

Scenarios ==
    ((HookCfgs \cup PhaseCfgs \cup DryCfgs) \X {BaseEnv}) \cup (RetryCfgs \X {SlowEnv})
    \cup (LockCfgs \X LockEnvs) \cup (ReuseCfgs \X {ReuseEnv})
    \cup (SignalCfgs \X {SignalEnv}) \cup (TimeCfgs \X {TimeEnv}) \cup (RetentionCfgs \X {SlowEnv})
    \cup (ArgsCfgs \X {SlowEnv}) \cup (SetterCfgs \X {SetterEnv})

Init ==
    /\ \E s \in Scenarios : cfg = s[1] /\ env = s[2]
    /\ pc = [p \in Procs |-> IF p = Self \/ env.otherPresent THEN "start" ELSE "absent"]
    /\ lockFile = NoHolder
    /\ lockWait = [p \in Procs |-> IF p = Self THEN cfg.lockWait ELSE env.otherLockWait]
    /\ start = [p \in Procs |-> 0]
    /\ success = [p \in Procs |-> FALSE]
    /\ result = [p \in Procs |-> "none"]
    /\ now = 0
    /\ startTime = 0            \* newResticWrapper: time.Unix(0, 0)
    /\ executionTime = 0
    /\ doneTryUnlock = FALSE
    /\ idx = 1
    /\ err = "nil"
    /\ panicking = FALSE
    /\ deferred = <<>>
    /\ trace = <<>>
    /\ progress = <<>>         \* one receiver added with addProgress
    /\ released = [p \in Procs |-> 0]
    /\ run = 1
    /\ called = <<>>
    /\ args = <<>>
    /\ lockLog = <<>>
    /\ spent = [engine |-> 0, init |-> 0, hooks |-> 0]
    /\ taskService = [connected |-> FALSE, connects |-> 0]
    /\ tasks = {}
    /\ ret = [op |-> "none", err |-> "nil"]

(***************************************************************************)
(* The phases of the guarded body                                          *)
(***************************************************************************)
\* mutant of initializeEnabled: the command is not looked at
initializeEnabledAnyCommand == cfg.globalInitialize \/ cfg.profileInitialize

\* runProfile: the condition of the call of runInitialize
initializeEnabled ==
    (cfg.globalInitialize \/ cfg.profileInitialize) /\ cfg.command # CommandInit

\* the condition under which runProfile calls the phase (a hook phase with an
\* empty hook list returns at once)
PhaseEnabled(ph) ==
    CASE ph = "run-before" -> cfg.hooks["run-before"] > 0
      [] ph = "init" -> initializeEnabled
      [] ph = "copy-init" ->
            cfg.command = CommandCopy /\ (cfg.globalInitialize \/ cfg.copyInitialize)
      [] ph = "backup.run-before" ->
            cfg.command = CommandBackup /\ cfg.hasBackup /\ cfg.hooks["backup.run-before"] > 0
      [] ph = "check-before" ->
            cfg.command = CommandBackup /\ cfg.hasBackup /\ cfg.checkBefore
      [] ph = "retention-before" -> cfg.command = CommandBackup /\ cfg.retentionBefore
      [] ph = "main" -> TRUE
      [] ph = "retention-after" -> cfg.command = CommandBackup /\ cfg.retentionAfter
      [] ph = "check-after" ->
            cfg.command = CommandBackup /\ cfg.hasBackup /\ cfg.checkAfter
      [] ph = "backup.run-after" ->
            cfg.command = CommandBackup /\ cfg.hasBackup /\ cfg.hooks["backup.run-after"] > 0
      [] ph = "run-after" -> cfg.hooks["run-after"] > 0

\* the position after phase number i ended without error: the next phase that
\* runs, or "returned" when the body returns nil
After(i) ==
    LET later == {j \in (i + 1)..Len(Phases) : PhaseEnabled(Phases[j])}
    IN  IF later = {} THEN "returned"
        ELSE Phases[CHOOSE j \in later : \A k \in later : j <= k]

\* an entry of trace: a child process started in phase ph (cmd is the engine
\* subcommand, "hook" or "final" with the index i of the hook in its list), a
\* callback called ("call") or a panic; exit is the exit status, stale tells
\* that the output showed a stale remote lock and sleep is the time slept
\* before the retry that followed; remote and age are the output analysis of
\* an engine invocation (ContainsRemoteLockFailure, GetRemoteLockedSince);
\* argv is the argument vector of an engine invocation and environ the
\* variables the wrapper added to the environment of a hook
Event(ph, cmd, i, exit) ==
    [ph |-> ph, cmd |-> cmd, i |-> i, exit |-> exit, stale |-> FALSE, sleep |-> 0,
     remote |-> FALSE, age |-> NIL, argv |-> <<>>, environ |-> {}]

(***************************************************************************)
(* Argument vectors: shell.Args and prepareCommand                         *)
(***************************************************************************)
\* shell.Args: an argument builder holds the flags of the configuration and
\* the arguments added to it, in the order of the calls of AddArgs
NewArgs(flags) == [flags |-> flags, more |-> <<>>]
AddArgs(a, xs) == [a EXCEPT !.more = @ \o xs]
GetAll(a) == a.flags \o a.more

\* Profile.GetCommandFlags(command) and Profile.GetRetentionFlags(): the
\* flags the configuration holds for the subcommand
GetCommandFlags(command) == NewArgs(<<"flags", command>>)

\* the builder made before the invocation of phase ph: runInitializeCopy takes
\* the flags of copy and promotes the secondary repository to the primary,
\* every other caller takes the flags of the subcommand it runs
PromoteSecondaryToPrimary(a) == [a EXCEPT !.flags = @ \o <<"promoted">>]
ArgsOf(ph, command) ==
    IF ph = "copy-init" THEN PromoteSecondaryToPrimary(GetCommandFlags(CommandCopy))
    ELSE GetCommandFlags(command)

\* mutant of Clone: the builder of the caller is modified
CloneShared(before, after) == after

\* prepareCommand: args = args.Clone(), the builder the caller holds after the
\* modification of the local instance that made it after
Clone(before, after) == before

\* prepareCommand: the argument vector of the child, and the builder of the
\* caller after the call
prepareCommand(command, a) ==
    LET more == IF Len(cfg.moreArgs) > 0 THEN AddArgs(a, cfg.moreArgs) ELSE a
        all == IF command = CommandBackup THEN AddArgs(more, cfg.sources) ELSE more
    IN  [arguments |-> <<command>> \o GetAll(all), args |-> Clone(a, all)]

\* the entry of an engine invocation with result out, made of the builder a
PreparedEvent(ph, cmd, out, a) ==
    [Event(ph, cmd, 0, out.exit) EXCEPT !.remote = out.remoteLock, !.age = out.age,
                                        !.argv = prepareCommand(cmd, a).arguments]

\* the entry of an engine invocation with result out, of a caller that makes
\* its builder for this one invocation
EngineEvent(ph, cmd, out) == PreparedEvent(ph, cmd, out, ArgsOf(ph, cmd))

(***************************************************************************)
(* runProfile and lockRun                                                  *)
(***************************************************************************)
Force(p) == IF p = Self THEN cfg.forceLock ELSE env.otherForce

\* mutant of forces: ForceAcquire is left for the time after the wait deadline
forcesAfterDeadline(p, t) ==
    Force(p) /\ ~(lockWait[p] # NIL /\ t - start[p] < lockWait[p])

\* lockRun, in the loop: if force { success = runLock.ForceAcquire() }
forces(p, t) == Force(p)

\* mutant of UsesLockFile: the condition of runProfile inverted
UsesLockFileInverted(p) == p = Other \/ (cfg.noLock \/ cfg.dryRun)

\* lockFile as runProfile passes it: "" when the lock is ignored or in dry-run
UsesLockFile(p) == p = Other \/ ~(cfg.noLock \/ cfg.dryRun)

\* where the callback run of lockRun starts: Self runs the guarded body,
\* Other an opaque one
BodyEntry(p) == IF p = Self THEN After(0) ELSE "body"

InBody(p) == pc[p] \in PhaseSet \cup {"body", "returned", "run-after-fail", "finally", "deferred"}

\* lock.TryAcquire: creates the lock file unless it exists
TryAcquire(p) == lockFile = NoHolder

\* lock.ForceAcquire: also takes the file over when its holder is found inactive
ForceAcquire(p, inactive) == lockFile = NoHolder \/ inactive

\* an entry of lockLog: op is "try" (TryAcquire), "force" (ForceAcquire), "who"
\* (Who), "sleep" (time.Sleep) or "expire" (lockWait = nil); res is the outcome
\* of the call, d the time slept and at is time.Since(start) at the call
LockEvent(op, res, d, at) == [op |-> op, res |-> res, d |-> d, at |-> at]

\* mutant of failsAtOnce: lockWait is not tested for nil
failsAtOnceNever(p) == FALSE

\* if lockWait == nil { return "another process is already running this profile" }
failsAtOnce(p) == lockWait[p] = NIL

\* mutant of BudgetLeft: the time elapsed is not looked at
BudgetLeftAlways(p, t) == lockWait[p] # NIL

\* lockWait != nil && time.Since(start) < *lockWait, at time t
BudgetLeft(p, t) == lockWait[p] # NIL /\ t - start[p] < lockWait[p]

\* lockLog after the steps evs of lockRun of p
Logged(p, evs) == IF p = Self THEN lockLog \o evs ELSE lockLog

(***************************************************************************)
(* Caller overrides of the locking: ignoreLock and maxWaitOnLock           *)
(***************************************************************************)
\* mutant of lockWaitIgnored: ignoreLock leaves the budget as it is
lockWaitIgnoredKept(lw) == lw

\* ignoreLock: r.lockWait = nil
lockWaitIgnored(lw) == NIL

\* maxWaitOnLock: if duration > 0 { r.lockWait = &duration } else { r.lockWait = nil }
lockWaitOf(duration) == IF duration > 0 THEN duration ELSE NIL

\* the caller sets r.noLock and r.lockWait before runProfile, which hands
\* r.lockWait to lockRun
configure(no, lw, call) ==
    /\ env.setters
    /\ pc[Self] = "start"
    /\ Len(called) < MaxCalls
    /\ cfg' = [cfg EXCEPT !.noLock = no, !.lockWait = lw]
    /\ lockWait' = [lockWait EXCEPT ![Self] = lw]
    /\ called' = Append(called, call)
    /\ UNCHANGED <<env, pc, lockFile, start, success, result, now, wrapperVars, bodyVars,
                   progress, released, run, args, schVars, logVars>>

ignoreLock == configure(TRUE, lockWaitIgnored(cfg.lockWait), [op |-> "ignoreLock", d |-> 0])

maxWaitOnLock ==
    \E duration \in SetterDurations :
        configure(FALSE, lockWaitOf(duration), [op |-> "maxWaitOnLock", d |-> duration])

\* runProfile up to the first TryAcquire of lockRun
runProfile(p) ==
    /\ pc[p] = "start"
    /\ startTime' = IF p = Self THEN now ELSE startTime
    /\ IF ~UsesLockFile(p) \/ ~env.dirCreatable
       THEN \* run(nil): no lock file, or MkdirAll failed
            /\ pc' = [pc EXCEPT ![p] = BodyEntry(p)]
            /\ UNCHANGED <<lockFile, success, start, lockLog>>
       ELSE /\ start' = [start EXCEPT ![p] = now]
            /\ lockLog' = Logged(p, <<LockEvent("try", IF TryAcquire(p) THEN "ok" ELSE "fail",
                                                0, 0)>>)
            /\ IF TryAcquire(p)
               THEN /\ lockFile' = p
                    /\ success' = [success EXCEPT ![p] = TRUE]
                    /\ pc' = [pc EXCEPT ![p] = BodyEntry(p)]
               ELSE /\ pc' = [pc EXCEPT ![p] = "who"]
                    /\ UNCHANGED <<lockFile, success>>
    /\ UNCHANGED <<cfg, env, lockWait, result, now, executionTime, doneTryUnlock, bodyVars,
                   callVars, spent>>

\* runLock.Who(): the holder, fs.ErrNotExist ("none") or another error
Who(readable) ==
    IF lockFile = NoHolder THEN "none" ELSE IF readable THEN "holder" ELSE "error"

\* mutant of whoContinues: a lock file that vanished ends lockRun as well
whoContinuesIfHolder(w) == w = "holder"

\* lockRun goes on to the next acquisition attempt: err == nil, or
\* errors.Is(err, fs.ErrNotExist) with locker = "none"
whoContinues(w) == w # "error"

\* lockRun, loop body, first half: runLock.Who()
lockRunWho(p) ==
    /\ pc[p] = "who"
    /\ \E readable \in BOOLEAN :
         /\ lockLog' = Logged(p, <<LockEvent("who", Who(readable), 0, now - start[p])>>)
         /\ IF whoContinues(Who(readable))
            THEN /\ pc' = [pc EXCEPT ![p] = "acquire"]
                 /\ UNCHANGED result
            ELSE /\ pc' = [pc EXCEPT ![p] = "done"]
                 /\ result' = [result EXCEPT ![p] = "unreadable"]
    /\ UNCHANGED <<cfg, env, lockFile, lockWait, start, success, now, wrapperVars, bodyVars,
                   callVars, spent>>

\* lockRun, loop body, second half: acquire again, then retry or return
lockRunAcquire(p) ==
    /\ pc[p] = "acquire"
    /\ \E inactive \in BOOLEAN :
         LET ok == IF forces(p, now) THEN ForceAcquire(p, inactive) ELSE TryAcquire(p)
             attempt == LockEvent(IF forces(p, now) THEN "force" ELSE "try",
                                  IF ok THEN "ok" ELSE "fail", 0, now - start[p])
         IN  IF ok
             THEN /\ lockFile' = p
                  /\ success' = [success EXCEPT ![p] = TRUE]
                  /\ pc' = [pc EXCEPT ![p] = BodyEntry(p)]
                  /\ lockLog' = Logged(p, <<attempt>>)
                  /\ UNCHANGED <<lockWait, result, now>>
             ELSE /\ UNCHANGED <<lockFile, success>>
                  /\ IF failsAtOnce(p)
                     THEN /\ pc' = [pc EXCEPT ![p] = "done"]
                          /\ result' = [result EXCEPT ![p] = "locked"]
                          /\ lockLog' = Logged(p, <<attempt>>)
                          /\ UNCHANGED <<lockWait, now>>
                     ELSE IF BudgetLeft(p, now)
                     THEN /\ now' = now + Min(LockSleep, lockWait[p])
                          /\ pc' = [pc EXCEPT ![p] = "who"]
                          /\ lockLog' = Logged(p, <<attempt,
                                 LockEvent("sleep", "ok", Min(LockSleep, lockWait[p]),
                                           now - start[p])>>)
                          /\ UNCHANGED <<lockWait, result>>
                     ELSE /\ lockWait' = [lockWait EXCEPT ![p] = NIL]
                          /\ pc' = [pc EXCEPT ![p] = "who"]
                          /\ lockLog' = Logged(p, <<attempt,
                                                    LockEvent("expire", "ok", 0, now - start[p])>>)
                          /\ UNCHANGED <<result, now>>
    /\ UNCHANGED <<cfg, env, start, wrapperVars, bodyVars, callVars, spent>>

\* the body of Other's run returns
otherRun ==
    /\ pc[Other] = "body"
    /\ pc' = [pc EXCEPT ![Other] = "release"]
    /\ UNCHANGED <<cfg, env, lockFile, lockWait, start, success, result, now,
                   wrapperVars, bodyVars, callVars, logVars>>

\* mutant of callsRelease: Release is deferred before the lock is acquired
callsReleaseAlways(p) == TRUE

\* lockRun reached defer runLock.Release(): the loop ended with success
callsRelease(p) == success[p]

\* lockRun's deferred runLock.Release(), and the return of runProfile
lockRunRelease(p) ==
    /\ pc[p] = "release"
    /\ lockFile' = IF callsRelease(p) THEN NoHolder ELSE lockFile
    /\ released' = [released EXCEPT ![p] = IF callsRelease(p) THEN @ + 1 ELSE @]
    /\ pc' = [pc EXCEPT ![p] = "done"]
    /\ result' = [result EXCEPT ![p] =
                    IF p = Self /\ panicking THEN "panic"
                    ELSE IF p = Self /\ err # "nil" THEN "error" ELSE "nil"]
    /\ UNCHANGED <<cfg, env, lockWait, start, success, now, wrapperVars, bodyVars,
                   progress, run, called, args, schVars, logVars>>

\* the caller calls runProfile once more on the same wrapper: nothing of the
\* wrapper is reset; the history of the call starts anew
runProfileAgain ==
    /\ env.reuse /\ run < MaxRuns
    /\ pc[Self] = "done" /\ result[Self] # "panic"
    /\ run' = run + 1
    /\ pc' = [pc EXCEPT ![Self] = "start"]
    /\ result' = [result EXCEPT ![Self] = "none"]
    /\ lockWait' = [lockWait EXCEPT ![Self] = cfg.lockWait]
    /\ success' = [success EXCEPT ![Self] = FALSE]
    /\ released' = [released EXCEPT ![Self] = 0]
    /\ idx' = 1
    /\ err' = "nil"
    /\ deferred' = <<>>
    /\ trace' = <<>>
    /\ progress' = <<>>
    /\ lockLog' = <<>>
    /\ args' = <<>>
    /\ UNCHANGED <<cfg, env, lockFile, start, now, wrapperVars, panicking, called, schVars,
                   spent>>

(***************************************************************************)
(* Child processes: runShellCommand                                        *)
(***************************************************************************)
\* lock ages shown by the output: below MinResticStaleLockAge, and above it
LockAges == {1, 3}
\* an error of the runner; NIL: an error that is no exec.ExitError
ExitCodes == {1, WarningExitCode, NIL} \cup (IF env.signals THEN {Interrupted} ELSE {})

Success == [exit |-> 0, remoteLock |-> FALSE, age |-> NIL, dur |-> 0]

\* summary.Duration of an invocation in the environment of the run
Durations == {0, env.maxDur}

\* what one engine invocation can return: exit status, output analysis
\* (ContainsRemoteLockFailure, GetRemoteLockedSince) and summary.Duration;
\* in dry-run nothing is spawned
EngineResults ==
    IF cfg.dryRun THEN {Success}
    ELSE {[Success EXCEPT !.dur = d] : d \in Durations}
         \cup {[exit |-> x, remoteLock |-> FALSE, age |-> NIL, dur |-> d] :
                  x \in ExitCodes, d \in Durations}
         \cup (IF env.remoteLocks
               THEN {[exit |-> 1, remoteLock |-> TRUE, age |-> a, dur |-> d] :
                        a \in LockAges \cup {NIL}, d \in Durations}
                    \cup {[exit |-> WarningExitCode, remoteLock |-> TRUE, age |-> a,
                           dur |-> 0] : a \in {NIL, 3}}
               ELSE {})
         \cup (IF env.signals
               THEN {[exit |-> Interrupted, remoteLock |-> TRUE, age |-> NIL, dur |-> 0]}
               ELSE {})

\* the time a hook takes; in dry-run nothing is spawned
HookDurations == IF cfg.dryRun THEN {0} ELSE Durations

\* exit status of a hook: 0, or an error
HookResults ==
    IF cfg.dryRun THEN {0} ELSE {0, 1} \cup (IF env.signals THEN {Interrupted} ELSE {})

(***************************************************************************)
(* Environment of the hooks                                                *)
(***************************************************************************)
\* getProfileEnvironment: PROFILE_NAME and PROFILE_COMMAND
getProfileEnvironment == {<<"PROFILE_NAME", "name">>, <<"PROFILE_COMMAND", cfg.command>>}

\* err.(*commandError): every error the body returns is made by
\* newCommandError
IsCommandError(e) == e # "nil"

\* mutant of getFailEnvironment: a nil error is described as well
getFailEnvironmentOfNil(e) ==
    {<<"ERROR", e>>, <<"ERROR_COMMANDLINE", "commandline">>, <<"ERROR_EXIT_CODE", "code">>,
     <<"ERROR_STDERR", "stderr">>, <<"RESTIC_STDERR", "stderr">>}

\* getFailEnvironment: nothing for a nil error, else ERROR and, for a
\* *commandError fail, fail.Commandline(), the exit code and twice fail.Stderr()
getFailEnvironment(e) ==
    IF e = "nil" THEN {}
    ELSE {<<"ERROR", e>>}
         \cup (IF IsCommandError(e)
               THEN {<<"ERROR_COMMANDLINE", "commandline">>, <<"ERROR_EXIT_CODE", "code">>,
                     <<"ERROR_STDERR", "stderr">>, <<"RESTIC_STDERR", "stderr">>}
               ELSE {})

\* the entry of a hook of the body: env of runPreCommand, runPostCommand,
\* runProfilePreCommand and runProfilePostCommand
HookEvent(ph, i, x) ==
    [Event(ph, "hook", i, x) EXCEPT !.environ = getProfileEnvironment]

\* the entry of a hook that is told the error fail: env of
\* runProfilePostFailCommand and runFinalCommand
FailHookEvent(ph, cmd, i, x, fail) ==
    [Event(ph, cmd, i, x) EXCEPT
        !.environ = getProfileEnvironment \cup getFailEnvironment(fail)]

(***************************************************************************)
(* Hook sequencer                                                          *)
(***************************************************************************)
\* mutant of hookFailed: the error of a hook is not looked at
hookFailedNever(x) == FALSE

\* if err != nil { return newCommandError(...) } in the loop of a hook list
hookFailed(x) == x # 0

\* one iteration of the loop of a stop-on-error hook list called from the body
runHook(ph) ==
    /\ pc[Self] = ph
    /\ \E x \in HookResults, d \in HookDurations :
         /\ now' = now + d
         /\ spent' = [spent EXCEPT !.hooks = @ + d]
         /\ trace' = Append(trace, HookEvent(ph, idx, x))
         /\ IF hookFailed(x)
            THEN /\ err' = ph
                 /\ idx' = 1
                 /\ pc' = [pc EXCEPT ![Self] = "returned"]
            ELSE IF idx < cfg.hooks[ph]
            THEN /\ idx' = idx + 1
                 /\ UNCHANGED <<err, pc>>
            ELSE /\ idx' = 1
                 /\ pc' = [pc EXCEPT ![Self] = After(PhaseIndex(ph))]
                 /\ UNCHANGED err
    /\ UNCHANGED <<cfg, env, lockFile, lockWait, start, success, result,
                   wrapperVars, panicking, deferred, callVars, lockLog>>

runProfilePreCommand == runHook("run-before")
runPreCommand == runHook("backup.run-before")
runPostCommand == runHook("backup.run-after")
runProfilePostCommand == runHook("run-after")

\* mutant of callsOnFailure: onFailure is called whatever run returned
callsOnFailureAlways(e) == TRUE

\* runOnFailure: if err != nil { onFailure(err) }
callsOnFailure(e) == e # "nil"

\* runOnFailure after run() returned
runOnFailure ==
    /\ pc[Self] = "returned"
    /\ IF callsOnFailure(err)
       THEN /\ trace' = Append(trace, Event("run-after-fail", "call", 0, 0))
            /\ pc' = [pc EXCEPT ![Self] =
                        IF cfg.hooks["run-after-fail"] > 0 THEN "run-after-fail"
                        ELSE "finally"]
       ELSE /\ pc' = [pc EXCEPT ![Self] = "finally"]
            /\ UNCHANGED trace
    /\ UNCHANGED <<cfg, env, lockFile, lockWait, start, success, result, now,
                   wrapperVars, idx, err, panicking, deferred, callVars, logVars>>

\* mutant of onFailure: the error of a run-after-fail hook replaces the error
\* that runProfile returns
onFailureReturned(e, x) == IF hookFailed(x) THEN "run-after-fail" ELSE e

\* the onFailure callback of runProfile: _ = r.runProfilePostFailCommand(err);
\* the err that runOnFailure returns is the one of run()
onFailure(e, x) == e

\* mutant of runProfilePostFailCommand: the loop goes on after a failed hook
runProfilePostFailCommandNoStop ==
    /\ pc[Self] = "run-after-fail"
    /\ \E x \in HookResults, d \in HookDurations :
         /\ now' = now + d
         /\ spent' = [spent EXCEPT !.hooks = @ + d]
         /\ trace' = Append(trace, FailHookEvent("run-after-fail", "hook", idx, x, err))
         /\ err' = onFailure(err, x)
         /\ IF idx < cfg.hooks["run-after-fail"]
            THEN /\ idx' = idx + 1
                 /\ UNCHANGED pc
            ELSE /\ idx' = 1
                 /\ pc' = [pc EXCEPT ![Self] = "finally"]
    /\ UNCHANGED <<cfg, env, lockFile, lockWait, start, success, result,
                   wrapperVars, panicking, deferred, callVars, lockLog>>

\* one iteration of the loop of runProfilePostFailCommand; its error is dropped
runProfilePostFailCommand ==
    /\ pc[Self] = "run-after-fail"
    /\ \E x \in HookResults, d \in HookDurations :
         /\ now' = now + d
         /\ spent' = [spent EXCEPT !.hooks = @ + d]
         /\ trace' = Append(trace, FailHookEvent("run-after-fail", "hook", idx, x, err))
         /\ err' = onFailure(err, x)
         /\ IF ~hookFailed(x) /\ idx < cfg.hooks["run-after-fail"]
            THEN /\ idx' = idx + 1
                 /\ UNCHANGED pc
            ELSE /\ idx' = 1
                 /\ pc' = [pc EXCEPT ![Self] = "finally"]
    /\ UNCHANGED <<cfg, env, lockFile, lockWait, start, success, result,
                   wrapperVars, panicking, deferred, callVars, lockLog>>

\* commands of runFinalCommand: Backup.RunFinally followed by Profile.RunFinally
FinalCommands ==
    (IF cfg.command = CommandBackup /\ cfg.hasBackup
     THEN [i \in 1..cfg.hooks["backup.run-finally"] |-> <<"backup.run-finally", i>>]
     ELSE <<>>)
    \o [i \in 1..cfg.hooks["run-finally"] |-> <<"run-finally", i>>]

\* mutant of DeferLoop: the loop ends at i > 0
DeferLoopOffByOne(n) == [k \in 1..(n - 1) |-> n + 1 - k]

\* mutant of DeferLoop: the loop counts upwards
DeferLoopForward(n) == [k \in 1..n |-> k]

\* the loop of runFinalCommand: for i := len(commands)-1; i >= 0; i-- { defer ... }
\* the result is the defer stack, its top at the end
DeferLoop(n) == [k \in 1..n |-> n + 1 - k]

\* the deferred finally(err) of runOnFailure calls runFinalCommand, which
\* defers one call for each command
runFinalCommand ==
    /\ pc[Self] = "finally"
    /\ trace' = Append(trace, Event("finally", "call", 0, IF err = "nil" THEN 0 ELSE 1))
    /\ deferred' = DeferLoop(Len(FinalCommands))
    /\ pc' = [pc EXCEPT ![Self] = IF deferred' = <<>> THEN "release" ELSE "deferred"]
    /\ UNCHANGED <<cfg, env, lockFile, lockWait, start, success, result, now,
                   wrapperVars, idx, err, panicking, callVars, logVars>>

\* mutant of Unwind: a failed finally hook ends the sequence
UnwindStopOnError(d, x) == IF hookFailed(x) THEN <<>> ELSE SubSeq(d, 1, Len(d) - 1)

\* the defer stack after its top call returned x: clog.Errorf only
Unwind(d, x) == SubSeq(d, 1, Len(d) - 1)

\* runFinalCommand returns: the deferred calls run, last deferred first; an
\* error of the hook is logged only. The env the calls share was made of the
\* fail of runFinalCommand, the err of runOnFailure, which is not assigned
\* after that
runDeferred ==
    /\ pc[Self] = "deferred"
    /\ LET i == deferred[Len(deferred)]
       IN  \E x \in HookResults, d \in HookDurations :
             /\ now' = now + d
             /\ spent' = [spent EXCEPT !.hooks = @ + d]
             /\ trace' = Append(trace, FailHookEvent(FinalCommands[i][1], "final",
                                                      FinalCommands[i][2], x, err))
             /\ deferred' = Unwind(deferred, x)
             /\ pc' = [pc EXCEPT ![Self] = IF deferred' = <<>> THEN "release" ELSE "deferred"]
    /\ UNCHANGED <<cfg, env, lockFile, lockWait, start, success, result,
                   wrapperVars, idx, err, panicking, callVars, lockLog>>

\* the body panics: run() does not return, err keeps its zero value, the
\* deferred calls run while the stack unwinds
panic ==
    /\ pc[Self] \in PhaseSet
    /\ ~cfg.dryRun
    /\ panicking' = TRUE
    /\ trace' = Append(trace, Event(pc[Self], "panic", 0, 0))
    /\ idx' = 1
    /\ pc' = [pc EXCEPT ![Self] = "finally"]
    /\ UNCHANGED <<cfg, env, lockFile, lockWait, start, success, result, now,
                   wrapperVars, err, deferred, callVars, logVars>>

(***************************************************************************)
(* Accounting and progress                                                 *)
(***************************************************************************)
\* mutant of accountTime: the duration is added twice
accountTimeTwice(e, d) == e + d + d

\* mutant of accountTime: the duration is not added
accountTimeDropped(e, d) == e

\* mutant of accountTime: the duration is assigned, not added
accountTimeAssign(e, d) == d

\* r.executionTime += summary.Duration
accountTime(e, d) == e + d

\* the command name under which a phase reports its invocations: runRetention
\* reports constants.SectionConfigurationRetention
summaryCommand(ph, command) ==
    IF ph \in {"retention-before", "retention-after"} THEN SectionConfigurationRetention
    ELSE command

\* mutant of summary: a failed invocation is not reported
summaryOfSuccess(p, command, out) ==
    IF cfg.dryRun \/ out.exit # 0 THEN p
    ELSE Append(p, [command |-> command, exit |-> out.exit])

\* mutant of summary: no test of r.dryRun
summaryInDryRun(p, command, out) == Append(p, [command |-> command, exit |-> out.exit])

\* r.summary(command, summary, stderr, err): the receiver's calls after p
summary(p, command, out) ==
    IF cfg.dryRun THEN p
    ELSE Append(p, [command |-> command, exit |-> out.exit])

(***************************************************************************)
(* Retry policy                                                            *)
(***************************************************************************)
\* mutant of canSucceedAfterError: Backup.NoErrorOnWarning is not looked at
canSucceedAfterErrorNoFlag(command, out) ==
    out.exit = 0 \/ (command = CommandBackup /\ out.exit = WarningExitCode)

\* mutant of canSucceedAfterError: no exit code is taken for a warning
canSucceedAfterErrorStrict(command, out) == out.exit = 0

\* canSucceedAfterError(command, summary, err)
canSucceedAfterError(command, out) ==
    \/ out.exit = 0
    \/ /\ command = CommandBackup
       /\ cfg.hasBackup
       /\ cfg.noErrorOnWarning
       /\ out.exit = WarningExitCode

\* mutant of staleLock: the threshold of the user is not raised to
\* MinResticStaleLockAge
staleLockUserAge(out) ==
    out.age # NIL /\ out.age >= cfg.staleLockAge /\ cfg.staleLockAge > 0

\* canRetryAfterRemoteLockFailure: staleLock && r.global.ResticStaleLockAge > 0
staleLock(out) ==
    /\ out.age # NIL
    /\ out.age >= Max(cfg.staleLockAge, MinResticStaleLockAge)
    /\ cfg.staleLockAge > 0

\* mutant of callsUnlock: no loop protection by doneTryUnlock
callsUnlockNoLatch(out, done) ==
    /\ out.remoteLock
    /\ staleLock(out)
    /\ cfg.forceLock

\* canRetryAfterRemoteLockFailure reaches the call of runUnlock: the lock is
\* stale, no unlock was tried before and ForceLock is set
callsUnlock(out, done) ==
    /\ out.remoteLock
    /\ staleLock(out)
    /\ ~done
    /\ cfg.forceLock

\* mutant of retryDelay: the delay is not capped by the available time
retryDelayUncapped(t, e) ==
    IF cfg.lockRetryAfter < MinResticLockRetryTime
    THEN MinResticLockRetryTime
    ELSE IF cfg.lockRetryAfter > MaxResticLockRetryTime
    THEN MaxResticLockRetryTime
    ELSE cfg.lockRetryAfter

\* the delay of the wait-and-retry branch, t being time.Now() and e r.executionTime
retryDelay(t, e) ==
    LET availableTime == cfg.lockWait - (t - startTime) + e
        clamped == IF cfg.lockRetryAfter < MinResticLockRetryTime
                   THEN MinResticLockRetryTime
                   ELSE IF cfg.lockRetryAfter > MaxResticLockRetryTime
                   THEN MaxResticLockRetryTime
                   ELSE cfg.lockRetryAfter
    IN  IF clamped > availableTime THEN availableTime ELSE clamped

\* mutant of ContainsRemoteLockFailure: every error is taken for a lock failure
ContainsRemoteLockFailureAlways(out) == TRUE

\* output.ContainsRemoteLockFailure()
ContainsRemoteLockFailure(out) == out.remoteLock

\* mutant of waitAndRetry: a delay below MinResticLockRetryTime is granted too
waitAndRetryNoFloor(no, t, e) ==
    IF cfg.lockWait # NIL /\ cfg.lockRetryAfter > 0
    THEN IF retryDelay(t, e) > 0
         THEN [no EXCEPT !.retry = TRUE, !.delay = retryDelay(t, e)]
         ELSE no
    ELSE no

\* canRetryAfterRemoteLockFailure, "Check if we have time left to wait on a
\* non-stale lock": the decision no, or a retry after the delay
waitAndRetry(no, t, e) ==
    IF cfg.lockWait # NIL /\ cfg.lockRetryAfter > 0
    THEN IF retryDelay(t, e) >= MinResticLockRetryTime
         THEN [no EXCEPT !.retry = TRUE, !.delay = retryDelay(t, e)]
         ELSE no
    ELSE no

\* mutant of staleNoRetry: a stale lock that is not unlocked is waited for
staleNoRetryFallsThrough(no, t, e) == [waitAndRetry(no, t, e) EXCEPT !.doneTryUnlock = TRUE]

\* the stale branch without unlock (unlock already attempted, or ForceLock not
\* set): r.doneTryUnlock is true and the result is return false, 0
staleNoRetry(no, t, e) == [no EXCEPT !.doneTryUnlock = TRUE]

\* canRetryAfterError with canRetryAfterRemoteLockFailure, after an invocation
\* with result out that ended at time t with r.executionTime = e; un is the
\* result of the unlock invocation, should there be one.  Yields the decision
\* and the state it leaves.
canRetryAfterError(out, un, t, e, done) ==
    LET no == [retry |-> FALSE, delay |-> 0, unlocked |-> FALSE, doneTryUnlock |-> done,
               executionTime |-> e, now |-> t]
    IN  IF ~ContainsRemoteLockFailure(out) THEN no
        ELSE IF callsUnlock(out, done)
        THEN \* r.doneTryUnlock = true, then runUnlock
             [retry |-> un.exit = 0, delay |-> 0, unlocked |-> TRUE,
              doneTryUnlock |-> TRUE, executionTime |-> accountTime(e, un.dur),
              now |-> t + un.dur]
        ELSE IF staleLock(out)
        THEN staleNoRetry(no, t, e)
        ELSE waitAndRetry(no, t, e)

(***************************************************************************)
(* Engine invocations                                                      *)
(***************************************************************************)
\* mutant of initializeFails: the error of the init pass ends the body
initializeFailsOnError(out) == out.exit # 0

\* runProfile: _ = r.runInitialize() and _ = r.runInitializeCopy()
initializeFails(out) == FALSE

\* runInitialize and runInitializeCopy: one invocation of init, whose error
\* runProfile drops; no accounting and no summary
initialize(ph) ==
    /\ pc[Self] = ph
    /\ \E out \in EngineResults :
         /\ trace' = Append(trace, EngineEvent(ph, CommandInit, out))
         /\ now' = now + out.dur
         /\ spent' = [spent EXCEPT !.engine = @ + out.dur, !.init = @ + out.dur]
         /\ IF initializeFails(out)
            THEN /\ err' = ph
                 /\ pc' = [pc EXCEPT ![Self] = "returned"]
            ELSE /\ pc' = [pc EXCEPT ![Self] = After(PhaseIndex(ph))]
                 /\ UNCHANGED err
    /\ UNCHANGED <<cfg, env, lockFile, lockWait, start, success, result,
                   wrapperVars, idx, panicking, deferred, callVars, lockLog>>

runInitialize == initialize("init")
runInitializeCopy == initialize("copy-init")

\* mutant of failed: an error that can be retried is retried before the
\* warning is looked at
failedOrRetryable(ok, out, d) == ~ok \/ (out.exit # 0 /\ d.retry)

\* the loops of runCheck, runRetention and runCommand: the condition under
\* which canRetryAfterError is called, if err != nil { ... } and
\* if err != nil && !r.canSucceedAfterError(command, summary, err) { ... }
failed(ok, out, d) == ~ok

\* one iteration of the loop of runCheck, runRetention and runCommand:
\* invocation, accounting, then success, retry (after unlock or a sleep) or error
invoke(ph, command, warning) ==
    /\ pc[Self] = ph
    /\ \E out \in EngineResults :
       \E un \in IF callsUnlock(out, doneTryUnlock) THEN EngineResults ELSE {Success} :
         LET t == now + out.dur
             e == accountTime(executionTime, out.dur)
             ok == IF warning THEN canSucceedAfterError(command, out) ELSE out.exit = 0
             d == canRetryAfterError(out, un, t, e, doneTryUnlock)
             s == summary(progress, summaryCommand(ph, command), out)
             a == IF args = <<>> THEN ArgsOf(ph, command) ELSE args[1]
         IN  /\ spent' = [spent EXCEPT !.engine = @ + out.dur
                                           + (IF failed(ok, out, d) /\ d.unlocked
                                              THEN un.dur ELSE 0)]
             /\ IF ~failed(ok, out, d)
                THEN /\ trace' = Append(trace, PreparedEvent(ph, command, out, a))
                     /\ progress' = s
                     /\ args' = <<>>
                     /\ executionTime' = e
                     /\ now' = t
                     /\ pc' = [pc EXCEPT ![Self] = After(PhaseIndex(ph))]
                     /\ UNCHANGED <<doneTryUnlock, err>>
                ELSE /\ trace' = trace \o <<[PreparedEvent(ph, command, out, a) EXCEPT
                                                !.stale = out.remoteLock /\ staleLock(out),
                                                !.sleep = d.delay]>>
                                   \o (IF d.unlocked
                                       THEN <<EngineEvent(ph, CommandUnlock, un)>> ELSE <<>>)
                     /\ progress' = IF d.unlocked THEN summary(s, CommandUnlock, un) ELSE s
                     /\ executionTime' = d.executionTime
                     /\ doneTryUnlock' = d.doneTryUnlock
                     /\ now' = d.now + d.delay     \* time.Sleep(sleep)
                     /\ args' = IF d.retry THEN <<prepareCommand(command, a).args>>
                                 ELSE <<>>
                     /\ IF d.retry
                        THEN UNCHANGED <<pc, err>>
                        ELSE /\ err' = ph
                             /\ pc' = [pc EXCEPT ![Self] = "returned"]
    /\ UNCHANGED <<cfg, env, lockFile, lockWait, start, success, result, startTime,
                   idx, panicking, deferred, released, run, called, schVars, lockLog>>

runCheck == invoke("check-before", CommandCheck, FALSE) \/ invoke("check-after", CommandCheck, FALSE)
runRetention ==
    invoke("retention-before", CommandForget, FALSE) \/ invoke("retention-after", CommandForget, FALSE)
runCommand == invoke("main", cfg.command, TRUE)

(***************************************************************************)
(* Specification                                                           *)
(***************************************************************************)
Next ==
    \/ ignoreLock
    \/ maxWaitOnLock
    \/ \E p \in Procs : runProfile(p)
    \/ \E p \in Procs : lockRunWho(p)
    \/ \E p \in Procs : lockRunAcquire(p)
    \/ \E p \in Procs : lockRunRelease(p)
    \/ runProfileAgain
    \/ otherRun
    \/ runProfilePreCommand
    \/ runInitialize
    \/ runInitializeCopy
    \/ runPreCommand
    \/ runCheck
    \/ runRetention
    \/ runCommand
    \/ runPostCommand
    \/ runProfilePostCommand
    \/ runOnFailure
    \/ runProfilePostFailCommand
    \/ runFinalCommand
    \/ runDeferred
    \/ panic

Spec == Init /\ [][Next]_vars

\* two attempts to run a profile on the same lock path, the loop of lockRun
\* running on: a thread that is in the acquisition loop takes its next step
LockInit == Init /\ cfg \in LockCfgs /\ env \in LockEnvs
LockNext ==
    \/ \E p \in Procs : runProfile(p)
    \/ \E p \in Procs : lockRunWho(p)
    \/ \E p \in Procs : lockRunAcquire(p)
    \/ \E p \in Procs : lockRunRelease(p)
    \/ otherRun
    \/ runCommand
    \/ runOnFailure
    \/ runFinalCommand
    \/ runDeferred
    \/ panic
LockSpec ==
    /\ LockInit /\ [][LockNext]_vars
    /\ WF_vars(lockRunWho(Self)) /\ WF_vars(lockRunAcquire(Self))

\* one run on a fresh wrapper under the retry policy, the loops of runCheck,
\* runRetention and runCommand running on: a loop that can make its next
\* attempt makes it
RetryInit == Init /\ env = SlowEnv /\ cfg \in RetryCfgs \cup RetentionCfgs
RetryNext ==
    \/ \E p \in Procs : runProfile(p)
    \/ \E p \in Procs : lockRunRelease(p)
    \/ invoke("check-before", CommandCheck, FALSE)
    \/ invoke("retention-before", CommandForget, FALSE)
    \/ runCommand
    \/ runOnFailure
    \/ runFinalCommand
    \/ panic
RetrySpec ==
    /\ RetryInit /\ [][RetryNext]_vars
    /\ WF_vars(invoke("check-before", CommandCheck, FALSE))
    /\ WF_vars(invoke("retention-before", CommandForget, FALSE))
    /\ WF_vars(runCommand)

(***************************************************************************)
(* Package schtasks: the connection to the local task scheduler            *)
(***************************************************************************)
ErrorNotConnected == "local task scheduler not connected"
ErrorNotRegistered == "ErrorNotRegistered"    \* the error value, declared next to the scheduler code
TaskNames == 1..MaxTasks
TaskOps == {"Create", "Delete", "Status"}

\* everything but the state of package schtasks
profileVars ==
    <<cfg, env, pc, lockFile, lockWait, start, success, result, now, wrapperVars, bodyVars,
      progress, released, run, called, args, logVars>>

\* mutant of IsConnected: the connection is taken for granted
IsConnectedAlways == TRUE

\* IsConnected: taskService.IsConnected()
IsConnected == taskService.connected

\* Connect: taskmaster.Connect() is called only when not connected; it yields
\* a connected service and nil, or a service that is not connected and an error
Connect ==
    /\ IF ~IsConnected
       THEN /\ taskService.connects < MaxConnects
            /\ \E ok \in BOOLEAN :
                 /\ taskService' = [connected |-> ok, connects |-> taskService.connects + 1]
                 /\ ret' = [op |-> "Connect", err |-> IF ok THEN "nil" ELSE "error"]
       ELSE /\ ret' = [op |-> "Connect", err |-> "nil"]
            /\ UNCHANGED taskService
    /\ UNCHANGED <<tasks, profileVars>>

\* Close: taskService.Disconnect()
Close ==
    /\ taskService' = [taskService EXCEPT !.connected = FALSE]
    /\ ret' = [op |-> "Close", err |-> "nil"]
    /\ UNCHANGED <<tasks, profileVars>>

\* Create: the task n is created or updated, unless the scheduler refuses
Create(n) ==
    /\ IF ~IsConnected
       THEN /\ ret' = [op |-> "Create", err |-> ErrorNotConnected]
            /\ UNCHANGED tasks
       ELSE \E ok \in BOOLEAN :
              /\ tasks' = IF ok THEN tasks \cup {n} ELSE tasks
              /\ ret' = [op |-> "Create", err |-> IF ok THEN "nil" ELSE "error"]
    /\ UNCHANGED <<taskService, profileVars>>

\* Delete: taskService.DeleteTask(taskName)
Delete(n) ==
    /\ IF ~IsConnected
       THEN /\ ret' = [op |-> "Delete", err |-> ErrorNotConnected]
            /\ UNCHANGED tasks
       ELSE IF n \notin tasks
       THEN /\ ret' = [op |-> "Delete", err |-> ErrorNotRegistered]
            /\ UNCHANGED tasks
       ELSE \E ok \in BOOLEAN :
              /\ tasks' = IF ok THEN tasks \ {n} ELSE tasks
              /\ ret' = [op |-> "Delete", err |-> IF ok THEN "nil" ELSE "error"]
    /\ UNCHANGED <<taskService, profileVars>>

\* Status: taskService.GetRegisteredTask(taskName), then the report
Status(n) ==
    /\ ret' = [op |-> "Status",
               err |-> IF ~IsConnected THEN ErrorNotConnected
                       ELSE IF n \notin tasks THEN ErrorNotRegistered ELSE "nil"]
    /\ UNCHANGED <<tasks, taskService, profileVars>>

\* a program that uses package schtasks only: its public functions are called
\* in any order
SchtasksInit == Init /\ cfg = BaseCfg /\ env = BaseEnv
SchtasksNext ==
    \/ Connect
    \/ Close
    \/ \E n \in TaskNames : Create(n)
    \/ \E n \in TaskNames : Delete(n)
    \/ \E n \in TaskNames : Status(n)
SchtasksSpec == SchtasksInit /\ [][SchtasksNext]_vars

(***************************************************************************)
(* Properties                                                              *)
(***************************************************************************)
Idx(P(_)) == {k \in 1..Len(trace) : P(trace[k])}

\* the guarded body of Self was entered and has ended
BodyEnded ==
    \/ pc[Self] = "release"
    \/ pc[Self] = "done" /\ result[Self] \in {"nil", "error", "panic"}

IsPhaseEvent(e) == e.ph \in PhaseSet
IsFailCall(e) == e.ph = "run-after-fail" /\ e.cmd = "call"
IsFailEvent(e) == e.ph = "run-after-fail"
IsFinalCall(e) == e.ph = "finally" /\ e.cmd = "call"
IsFinal(e) == e.cmd = "final"
IsEngine(e) == e.cmd \notin {"hook", "final", "call", "panic"}
IsUnlock(e) == e.cmd = CommandUnlock

\* both attempts take the file lock and none forces it
BothLock ==
    /\ env.otherPresent
    /\ ~cfg.noLock /\ ~cfg.dryRun
    /\ env.dirCreatable
    /\ ~cfg.forceLock /\ ~env.otherForce

\* C1, as claimed: two overlapping runProfile attempts on the same Lock path
\* are never both inside the locked body
C1_AsClaimed == ~(InBody(Self) /\ InBody(Other))

\* C1, amended: when both attempts take the file lock (lock not ignored, no
\* dry-run, lock directory creatable) and neither sets ForceLock, at most one
\* is inside the locked body, it holds the lock file, and the other one has
\* not started, waits in the acquisition loop, or has returned; it returns
\* "already running" only without a (remaining) lockWait budget
C1_MutualExclusion ==
    BothLock =>
        /\ ~(InBody(Self) /\ InBody(Other))
        /\ \A p \in Procs : InBody(p) =>
             /\ lockFile = p
             /\ \A q \in Procs \ {p} : pc[q] \in {"start", "who", "acquire", "done"}
        /\ \A p \in Procs : result[p] = "locked" => lockWait[p] = NIL /\ ~success[p]

C1_Witness ==
    /\ BothLock
    /\ InBody(Self) /\ pc[Other] = "acquire" /\ lockWait[Other] # NIL
    /\ now > start[Other]

\* the finally hooks the run has to execute
ExpectedFinal ==
    {<<"run-finally", i>> : i \in 1..cfg.hooks["run-finally"]}
    \cup (IF cfg.command = CommandBackup
          THEN {<<"backup.run-finally", i>> : i \in 1..cfg.hooks["backup.run-finally"]}
          ELSE {})

FinalRuns(h) == Cardinality({k \in Idx(IsFinal) : trace[k].ph = h[1] /\ trace[k].i = h[2]})

\* C2: however the body ends (nil, error of any phase, panic), every finally
\* hook (Backup.RunFinally if command = backup, and Profile.RunFinally) has been
\* executed exactly once, and no hook is ever executed twice
C2_FinallyOnce ==
    /\ \A k \in Idx(IsFinal) : <<trace[k].ph, trace[k].i>> \in ExpectedFinal
    /\ \A h \in ExpectedFinal : FinalRuns(h) <= 1
    /\ BodyEnded => \A h \in ExpectedFinal : FinalRuns(h) = 1

C2_Witness ==
    /\ pc[Self] = "done" /\ panicking
    /\ cfg.command = CommandBackup
    /\ cfg.hooks["backup.run-finally"] > 1 /\ cfg.hooks["run-finally"] > 1
    /\ \A h \in ExpectedFinal : FinalRuns(h) = 1

\* position of a finally hook in the combined list
FinalPos(e) ==
    IF e.ph = "backup.run-finally" THEN e.i
    ELSE e.i + (IF cfg.command = CommandBackup THEN cfg.hooks["backup.run-finally"] ELSE 0)

C4_FailIffError ==
    /\ Cardinality(Idx(IsFailCall)) <= 1
    /\ \A k \in Idx(IsFailEvent) : \E c \in Idx(IsFailCall) : c <= k
    /\ pc[Self] \in PhaseSet \cup {"start", "who", "acquire", "returned"} => Idx(IsFailCall) = {}
    /\ pc[Self] \in {"finally", "deferred"} \/ BodyEnded =>
         (Idx(IsFailCall) # {} <=> err # "nil")
    /\ panicking => Idx(IsFailEvent) = {}
    /\ \A k \in Idx(IsFailCall) :
         \E f \in 1..(k - 1) : trace[f].ph = err /\ trace[f].exit # 0

C4_Witness ==
    /\ pc[Self] = "done" /\ err # "nil"
    /\ \E k \in Idx(IsFailEvent) : trace[k].cmd = "hook"

\* the phase that ended with event k returned an error: the event is the last
\* one of its phase, other phases followed, and it is a failure
PhaseReturnedError(k) ==
    /\ IsPhaseEvent(trace[k])
    /\ trace[k].cmd # "panic"
    /\ trace[k].exit # 0
    /\ k < Len(trace) /\ trace[k + 1].ph # trace[k].ph
    /\ ~(/\ trace[k].ph = "main" /\ trace[k].cmd = CommandBackup
         /\ trace[k].exit = WarningExitCode /\ cfg.noErrorOnWarning)

\* C5, as claimed: after the first phase that returns an error no later
\* pre/main/post phase is started
C5_AsClaimed ==
    \A k \in 1..Len(trace) : PhaseReturnedError(k) =>
        \A l \in (k + 1)..Len(trace) : ~IsPhaseEvent(trace[l])

\* C5, amended: after the first phase other than init and copy-init (whose
\* errors are dropped) that returns an error, no later pre/main/post phase is
\* started, then run-after-fail runs, then finally runs; if a profile
\* run-before hook fails the engine is never invoked and runProfile returns an
\* error
C5_AbortOnError ==
    /\ \A k \in 1..Len(trace) :
         PhaseReturnedError(k) /\ trace[k].ph \notin {"init", "copy-init"} =>
            /\ err = trace[k].ph
            /\ \A l \in (k + 1)..Len(trace) : ~IsPhaseEvent(trace[l])
            /\ IsFailCall(trace[k + 1])
    /\ \A k \in Idx(IsFailEvent) : \A l \in (k + 1)..Len(trace) :
         IsFailEvent(trace[l]) \/ IsFinalCall(trace[l]) \/ IsFinal(trace[l])
    /\ \A k \in Idx(IsFinalCall) : \A l \in (k + 1)..Len(trace) : IsFinal(trace[l])
    /\ err # "nil" /\ BodyEnded =>
         /\ Idx(IsFailCall) # {} /\ Idx(IsFinalCall) # {}
         /\ pc[Self] = "done" => result[Self] = "error"
    /\ err = "run-before" => Idx(IsEngine) = {}

C5_Witness ==
    /\ pc[Self] = "done" /\ err = "run-before" /\ result[Self] = "error"
    /\ cfg.globalInitialize /\ cfg.command = CommandBackup
    /\ Idx(IsFinal) # {} /\ \E k \in Idx(IsFailEvent) : trace[k].cmd = "hook"

\* the order of the phases as C6 states it
ClaimedOrder ==
    <<"run-before", "init", "copy-init", "backup.run-before", "check-before",
      "retention-before", "main", "retention-after", "check-after",
      "backup.run-after", "run-after">>
Rank(ph) == CHOOSE i \in 1..Len(ClaimedOrder) : ClaimedOrder[i] = ph
BackupOnly == {"backup.run-before", "check-before", "retention-before",
               "retention-after", "check-after", "backup.run-after"}

\* what a phase starts: its hooks, or its engine subcommand (and unlock)
PhaseCommands(ph) ==
    CASE ph \in HookPhases -> {"hook"}
      [] ph \in {"init", "copy-init"} -> {CommandInit}
      [] ph \in {"check-before", "check-after"} -> {CommandCheck, CommandUnlock}
      [] ph \in {"retention-before", "retention-after"} -> {CommandForget, CommandUnlock}
      [] ph = "main" -> {cfg.command, CommandUnlock}

\* C6: the phases that execute appear in the strict order profile run-before,
\* init, copy-init, backup run-before, check-before, retention-before, main,
\* retention-after, check-after, backup run-after, profile run-after, each at
\* most once (one block of the trace, each hook once, init invoked once), and
\* the backup-only phases never run when command is not backup
C6_PhaseOrder ==
    /\ \A k, l \in Idx(IsPhaseEvent) : k < l => Rank(trace[k].ph) <= Rank(trace[l].ph)
    /\ \A k, l \in Idx(IsPhaseEvent) :
         k < l /\ trace[k].ph = trace[l].ph /\ trace[k].cmd = trace[l].cmd =>
            /\ trace[k].cmd = "hook" => trace[k].i < trace[l].i
            /\ trace[k].cmd # CommandInit
    /\ \A k \in Idx(IsPhaseEvent) :
         /\ trace[k].cmd \in PhaseCommands(trace[k].ph) \cup {"panic"}
         /\ trace[k].ph \in BackupOnly => cfg.command = CommandBackup

C6_Witness ==
    /\ pc[Self] = "done" /\ result[Self] = "nil"
    /\ \A ph \in {"run-before", "init", "check-before", "retention-before", "main",
                  "retention-after", "check-after"} :
         \E k \in Idx(IsPhaseEvent) : trace[k].ph = ph

\* the hooks of list l started so far, in order
HooksRun(l) == SelectSeq(trace, LAMBDA e : e.ph = l /\ e.cmd = "hook")
NonFinalLists == {"run-before", "backup.run-before", "backup.run-after", "run-after",
                  "run-after-fail"}

\* C7: within each non-finally hook list the hooks execute in declaration
\* order, and a hook that fails is the last one of its list to run
C7_HookOrder ==
    \A l \in NonFinalLists :
        /\ Len(HooksRun(l)) <= cfg.hooks[l]
        /\ \A k \in 1..Len(HooksRun(l)) :
             /\ HooksRun(l)[k].i = k
             /\ HooksRun(l)[k].exit # 0 => k = Len(HooksRun(l))

C7_Witness ==
    /\ pc[Self] = "done"
    /\ cfg.hooks["run-before"] > 1 /\ cfg.hooks["run-after-fail"] > 1
    /\ Len(HooksRun("run-before")) = 2 /\ HooksRun("run-before")[2].exit # 0
    /\ Len(HooksRun("run-after-fail")) = 1

IsInitPass(e) == e.ph = "init" /\ e.cmd = CommandInit
IsPreHook(e) == e.ph = "run-before" /\ e.cmd = "hook"
InitPasses == Cardinality(Idx(IsInitPass))

\* C8, as claimed: with command = init the repository-initialize pass is never
\* executed; with any other command a run executes it exactly once iff
\* Global.Initialize or Profile.Initialize is set
C8_AsClaimed ==
    /\ cfg.command = CommandInit => InitPasses = 0
    /\ BodyEnded /\ ~panicking /\ cfg.command # CommandInit =>
         (InitPasses = 1 <=> cfg.globalInitialize \/ cfg.profileInitialize)

\* C8, amended: with command = init the repository-initialize pass is never
\* executed; with any other command it is executed at most once, only if
\* Global.Initialize or Profile.Initialize is set and only after every profile
\* run-before hook has succeeded, and a run that does not panic executes it
\* exactly once iff one of the two flags is set and no profile run-before hook
\* failed
C8_InitPass ==
    /\ cfg.command = CommandInit => InitPasses = 0
    /\ InitPasses <= 1
    /\ \A k \in Idx(IsInitPass) :
         /\ cfg.globalInitialize \/ cfg.profileInitialize
         /\ Cardinality({h \in 1..(k - 1) : IsPreHook(trace[h]) /\ trace[h].exit = 0})
               = cfg.hooks["run-before"]
         /\ \A h \in Idx(IsPreHook) : h < k
    /\ BodyEnded /\ ~panicking /\ cfg.command # CommandInit =>
         (InitPasses = 1 <=>
            (cfg.globalInitialize \/ cfg.profileInitialize) /\ err # "run-before")

C8_Witness ==
    /\ pc[Self] = "done" /\ InitPasses = 1
    /\ cfg.command = CommandCopy /\ cfg.globalInitialize
    /\ Idx(IsPreHook) # {}

IsWarning(e) == e.ph = "main" /\ e.cmd = CommandBackup /\ e.exit = WarningExitCode
PostPhases == {"retention-after", "check-after", "backup.run-after", "run-after"}

\* what follows the main command of a backup that ended without error
AfterBackup ==
    IF cfg.retentionAfter THEN "retention-after"
    ELSE IF cfg.hasBackup /\ cfg.checkAfter THEN "check-after"
    ELSE IF cfg.hooks["backup.run-after"] > 0 THEN "backup.run-after"
    ELSE IF cfg.hooks["run-after"] > 0 THEN "run-after"
    ELSE "finally"

\* C9: with Backup.NoErrorOnWarning a backup that exits with code 3 counts as a
\* success: the main command is not run again and does not fail the run, the
\* post-backup phases follow as after a clean exit, run-after-fail fires only
\* for an error of a post phase, and runProfile returns nil when they succeed
C9_WarningIsSuccess ==
    cfg.command = CommandBackup /\ cfg.hasBackup /\ cfg.noErrorOnWarning =>
        \A k \in Idx(IsWarning) :
            /\ \A l \in (k + 1)..Len(trace) : trace[l].ph # "main"
            /\ k < Len(trace) => trace[k + 1].ph = AfterBackup
            /\ k = Len(trace) =>
                 pc[Self] \in {AfterBackup} \cup
                              (IF AfterBackup = "finally" THEN {"returned"} ELSE {})
            /\ err \in PostPhases \cup {"nil"}
            /\ Idx(IsFailCall) # {} => err \in PostPhases
            /\ pc[Self] = "done" /\ err = "nil" /\ ~panicking => result[Self] = "nil"

C9_Witness ==
    /\ pc[Self] = "done" /\ result[Self] = "nil"
    /\ cfg.noErrorOnWarning /\ Idx(IsWarning) # {}
    /\ \E k \in Idx(IsPhaseEvent) : trace[k].ph = "check-after"
    /\ Idx(IsFailEvent) = {}

\* C10: in one run the unlock subcommand is invoked at most once, over all
\* phases together, however many invocations fail with a stale remote lock
C10_UnlockOnce == Cardinality(Idx(IsUnlock)) <= 1

C10_Witness ==
    /\ pc[Self] = "done"
    /\ \E u \in Idx(IsUnlock) :
         /\ trace[u].ph = "check-before" /\ trace[u].exit = 0
         /\ \E k \in (u + 1)..Len(trace) : trace[k].ph = "main" /\ trace[k].stale

\* C11: the retry state is monotone: no step decreases executionTime, and no
\* step sets doneTryUnlock back to false, so that it changes at most once,
\* from false to true
C11_RetryStateMonotone ==
    [][executionTime' >= executionTime /\ (doneTryUnlock => doneTryUnlock')]_vars

C11_Witness ==
    /\ pc[Self] = "done" /\ doneTryUnlock /\ executionTime >= 2
    /\ \E u \in Idx(IsUnlock) : \E k \in (u + 1)..Len(trace) : IsEngine(trace[k])

\* the step ends a granted wait-retry sleep
SleepGranted == Len(trace') > Len(trace) /\ trace'[Len(trace')].sleep > 0

\* C12: at the end of every granted wait-retry sleep the time elapsed since
\* startTime is at most lockWait + executionTime + MaxResticLockRetryTime
C12_WaitBudget ==
    [][SleepGranted =>
         now' - startTime' <= cfg.lockWait + executionTime' + MaxResticLockRetryTime]_vars

C12_Witness ==
    /\ Len(trace) > 1 /\ pc[Self] = "main"
    /\ trace[Len(trace)].sleep > 0 /\ trace[Len(trace)].sleep < cfg.lockRetryAfter
    /\ executionTime > 0
    /\ now - startTime = cfg.lockWait + executionTime

\* run-after-fail has finished: every hook of the list ran, or the last one failed
FailHooksFinished ==
    \/ Len(HooksRun("run-after-fail")) = cfg.hooks["run-after-fail"]
    \/ /\ HooksRun("run-after-fail") # <<>>
       /\ HooksRun("run-after-fail")[Len(HooksRun("run-after-fail"))].exit # 0

C13_State ==
    /\ \A p \in Procs :
         /\ released[p] <= 1
         /\ released[p] = 1 => success[p] /\ pc[p] = "done"
         /\ success[p] /\ pc[p] = "done" => released[p] = 1
         /\ ~success[p] => released[p] = 0
    /\ released[Self] = 1 =>
         /\ result[Self] \in {"nil", "error", "panic"}
         /\ deferred = <<>>
         /\ \A h \in ExpectedFinal : FinalRuns(h) = 1
         /\ err # "nil" => Idx(IsFailCall) # {} /\ FailHooksFinished

C13_Step ==
    lockFile # NoHolder /\ lockFile' = NoHolder =>
        \E p \in Procs : success[p] /\ pc[p] = "release" /\ released'[p] = released[p] + 1

\* C13: when lockRun acquired the lock, Release() is executed exactly once on
\* every way the body ends (nil, error, panic) and only after run-after-fail
\* and all finally hooks have finished; when the lock was not acquired, Release()
\* is never called, and the lock file is removed by no one else
C13_Release == []C13_State /\ [][C13_Step]_vars

C13_Witness ==
    /\ released[Self] = 1 /\ result[Self] = "panic" /\ Idx(IsFinal) # {}
    /\ result[Other] = "locked" /\ released[Other] = 0

\* the Summary calls that a sequence of child processes stands for (a forget
\* is reported as "retention")
Calls(sq) ==
    [k \in 1..Len(sq) |->
        [command |-> IF sq[k].cmd = CommandForget THEN SectionConfigurationRetention
                     ELSE sq[k].cmd,
         exit |-> sq[k].exit]]
IsNotified(e) == IsEngine(e) /\ e.ph \notin {"init", "copy-init"}

\* C14, as claimed: the progress receiver is invoked once for every engine
\* invocation (init, copy-init, check, retention, main command, unlock), in
\* invocation order, never for a hook and never in dry-run
C14_AsClaimed ==
    progress = IF cfg.dryRun THEN <<>> ELSE Calls(SelectSeq(trace, IsEngine))

\* C14, amended: the progress receiver is invoked once for every invocation of
\* check, retention, the main command and unlock (once per attempt), in
\* invocation order and with the result of the invocation; it is never invoked
\* for the initialize passes, for a hook or in dry-run
C14_Progress ==
    progress = IF cfg.dryRun THEN <<>> ELSE Calls(SelectSeq(trace, IsNotified))

C14_Witness ==
    /\ pc[Self] = "done" /\ Len(progress) >= 3
    /\ \E k \in 1..Len(progress) : progress[k].exit # 0
    /\ Idx(IsInitPass) # {} /\ Idx(IsPreHook) # {}

\* the phases in which something was started, in the order of Phases
Walked == SelectSeq(Phases, LAMBDA ph : \E k \in Idx(IsPhaseEvent) : trace[k].ph = ph)

\* C15: in dry-run a run never acquires, waits for or releases the file lock,
\* never notifies a progress receiver, walks every configured phase in order
\* (each hook of a configured list once) and returns nil
C15_DryRun ==
    cfg.dryRun =>
        /\ ~success[Self] /\ lockFile # Self /\ released[Self] = 0
        /\ pc[Self] \notin {"who", "acquire"} /\ result[Self] \notin {"locked", "unreadable"}
        /\ progress = <<>>
        /\ \A k, l \in Idx(IsPhaseEvent) :
             k < l => PhaseIndex(trace[k].ph) <= PhaseIndex(trace[l].ph)
        /\ \A k \in 1..Len(trace) : trace[k].exit = 0 /\ trace[k].cmd # "panic"
        /\ BodyEnded =>
             /\ Walked = SelectSeq(Phases, PhaseEnabled)
             /\ \A ph \in HookPhases : Len(HooksRun(ph)) = IF PhaseEnabled(ph) THEN cfg.hooks[ph] ELSE 0
             /\ err = "nil" /\ Idx(IsFailEvent) = {}
             /\ pc[Self] = "done" => result[Self] = "nil"

C15_Witness ==
    /\ cfg.dryRun /\ pc[Self] = "done" /\ result[Self] = "nil"
    /\ Len(Walked) >= 7 /\ Idx(IsFinal) # {}

FailHookFailed == \E k \in Idx(IsFailEvent) : trace[k].cmd = "hook" /\ trace[k].exit # 0

\* C16, as claimed: when the main choreography failed and a run-after-fail
\* hook fails too, the error that runProfile returns is the fail hook's
C16_AsClaimed == BodyEnded /\ FailHookFailed => err = "run-after-fail"

\* C16, amended: the error of a run-after-fail hook is dropped: the remaining
\* run-after-fail hooks are skipped, the finally hooks still run, and runProfile
\* returns the error of the main choreography unchanged
C16_FailErrorDropped ==
    FailHookFailed =>
        /\ err \in PhaseSet \ {"init", "copy-init"}
        /\ \E c \in Idx(IsFailCall) : c > 1 /\ trace[c - 1].ph = err /\ trace[c - 1].exit # 0
        /\ BodyEnded =>
             /\ \A h \in ExpectedFinal : FinalRuns(h) = 1
             /\ pc[Self] = "done" => result[Self] = "error"

C16_Witness ==
    /\ pc[Self] = "done" /\ FailHookFailed /\ err = "main" /\ result[Self] = "error"
    /\ Idx(IsFinal) # {}

\* the error of the main choreography, read from the children it started: the
\* phase of the last child when that child failed and the phase was not
\* tried again, and no error otherwise
ChoreographyError ==
    IF Idx(IsPhaseEvent) = {} THEN "nil"
    ELSE LET e == trace[CHOOSE k \in Idx(IsPhaseEvent) : \A l \in Idx(IsPhaseEvent) : l <= k]
         IN  IF /\ e.exit # 0
                /\ e.ph \notin {"init", "copy-init"}
                /\ ~(IsWarning(e) /\ cfg.hasBackup /\ cfg.noErrorOnWarning)
             THEN e.ph ELSE "nil"

\* C17: a failing finally hook never changes the outcome: runProfile returns
\* the error of the main choreography (nil if it succeeded) whatever the finally
\* hooks return, and every finally hook runs whatever the earlier ones returned
C17_FinallyErrorsIgnored ==
    /\ BodyEnded => \A h \in ExpectedFinal : FinalRuns(h) = 1
    /\ BodyEnded /\ ~panicking =>
         /\ err = ChoreographyError
         /\ pc[Self] = "done" => result[Self] = IF err = "nil" THEN "nil" ELSE "error"

C17_Witness ==
    /\ pc[Self] = "done" /\ result[Self] = "nil"
    /\ \E k \in Idx(IsFinal) :
         /\ trace[k].exit # 0
         /\ Cardinality({l \in Idx(IsFinal) : l > k}) >= 2

IsInitFailure(e) == e.ph \in {"init", "copy-init"} /\ e.cmd = CommandInit /\ e.exit # 0

\* C18: an error of the repository-initialize pass or of the copy-initialize
\* pass is swallowed: it is never the error of the run, it does not trigger
\* run-after-fail, and the phase that follows is the one that follows a
\* successful pass
C18_InitSwallowed ==
    /\ err \notin {"init", "copy-init"}
    /\ \A k \in Idx(IsInitFailure) :
         /\ k < Len(trace) => trace[k + 1].ph = After(PhaseIndex(trace[k].ph))
         /\ k = Len(trace) => pc[Self] = After(PhaseIndex(trace[k].ph))
         /\ \A c \in Idx(IsFailCall) :
              \E f \in (k + 1)..(c - 1) : IsPhaseEvent(trace[f]) /\ trace[f].exit # 0

C18_Witness ==
    /\ pc[Self] = "done" /\ result[Self] = "nil" /\ cfg.command = CommandCopy
    /\ \E k, l \in Idx(IsInitFailure) : trace[k].ph = "init" /\ trace[l].ph = "copy-init"
    /\ Idx(IsFailEvent) = {}

IsInterrupted(e) == e.exit = Interrupted /\ e.cmd \notin {"call", "panic"}

\* C19, as claimed: whichever child (engine or hook, in whichever phase) is
\* terminated by a forwarded signal, no further pre/main/post phase is
\* started (nothing is started in another phase), run-after-fail and the
\* finally hooks still run, and runProfile returns an error
C19_AsClaimed ==
    \A k \in Idx(IsInterrupted) :
        /\ \A l \in (k + 1)..Len(trace) :
             IsPhaseEvent(trace[l]) => trace[l].ph = trace[k].ph
        /\ BodyEnded /\ ~panicking /\ IsPhaseEvent(trace[k]) =>
             /\ \A h \in ExpectedFinal : FinalRuns(h) = 1
             /\ Idx(IsFailCall) # {}
             /\ pc[Self] = "done" => result[Self] = "error"

\* C20, as claimed: at the start of every call of runProfile, a second call on
\* the same wrapper included, doneTryUnlock is false, executionTime is zero and
\* startTime is the time of the call
C20_AsClaimed ==
    [][pc[Self] = "start" /\ pc'[Self] # "start" =>
         ~doneTryUnlock' /\ executionTime' = 0 /\ startTime' = now']_vars
\* C21 as claimed: r.executionTime is the sum of the durations of all engine
\* invocations completed so far in the run, those of the initialize passes
\* included (first call of runProfile on the wrapper)
C21_AsClaimed == run = 1 => executionTime = spent.engine

\* C21: r.executionTime is the sum of the durations of the check, retention,
\* main-command and unlock invocations completed so far on the wrapper; the
\* invocations of runInitialize and runInitializeCopy and the hooks add nothing
C21_ExecutionTime == executionTime = spent.engine - spent.init

\* an initialize pass, a hook and a counted invocation all took time
C21_Witness == spent.init > 0 /\ spent.hooks > 0 /\ executionTime > 0

\* C22: while the task service is not connected (no Connect yet, Connect
\* failed, or Close was called) a call of Create, Delete or Status returns
\* ErrorNotConnected and leaves the tasks and the service as they are; Connect
\* on a connected service returns nil and does not connect again
C22_Step ==
    /\ ~taskService.connected /\ ret'.op \in TaskOps =>
          ret'.err = ErrorNotConnected /\ tasks' = tasks /\ taskService' = taskService
    /\ taskService.connected /\ ret'.op = "Connect" =>
          ret'.err = "nil" /\ taskService' = taskService /\ tasks' = tasks
C22_NotConnected == [][C22_Step]_vars

\* a call was refused with ErrorNotConnected after a connection had been
\* established, used and closed, and after a failed Connect
C22_Witness ==
    /\ ret.op \in TaskOps /\ ret.err = ErrorNotConnected
    /\ ~taskService.connected /\ taskService.connects >= 2 /\ tasks # {}

\* the steps of lockRun of Self that are acquisition attempts of the loop
IsAttempt(e) == e.op \in {"try", "force"}
LoopAttempts == {k \in 2..Len(lockLog) : IsAttempt(lockLog[k])}
LogOps(op) == {k \in 1..Len(lockLog) : lockLog[k].op = op}

\* no child process was started and no callback was called
NothingRan == trace = <<>> /\ progress = <<>> /\ executionTime = 0 /\ spent.hooks = 0

\* C23: without a wait budget lockRun never sleeps, and an attempt of the loop
\* that finds the lock held is its last step: runProfile returns the "already
\* running" error, the body is not entered, no hook and no engine invocation run
C23_FailAtOnce ==
    cfg.lockWait = NIL =>
        /\ LogOps("sleep") = {} /\ LogOps("expire") = {}
        /\ \A k \in LoopAttempts :
              lockLog[k].res = "fail" =>
                  /\ k = Len(lockLog) /\ k = 3
                  /\ pc[Self] = "done" /\ result[Self] = "locked"
                  /\ ~success[Self] /\ released[Self] = 0
                  /\ NothingRan
        /\ result[Self] = "locked" => Len(lockLog) = 3 /\ lockLog[3].res = "fail"

\* Other holds the lock and owns it still after lockRun of Self failed
C23_Witness ==
    /\ cfg.lockWait = NIL /\ result[Self] = "locked" /\ lockFile = Other
    /\ lockLog[3].at = 0

\* lockRun of Self is in its acquisition loop
InLoop == pc[Self] \in {"who", "acquire"}

\* what the steps of the loop taken so far look like, with a wait budget
C24_State ==
    cfg.lockWait # NIL =>
        \* a sleep follows a failed attempt made while the budget lasts, and
        \* takes min(3s, lockWait)
        /\ \A k \in LogOps("sleep") :
              /\ lockLog[k].d = Min(LockSleep, cfg.lockWait)
              /\ lockLog[k].at < cfg.lockWait
              /\ k - 1 \in LoopAttempts /\ lockLog[k - 1].res = "fail"
        \* the budget is given up once, after a failed attempt at its end
        /\ Cardinality(LogOps("expire")) <= 1
        /\ \A k \in LogOps("expire") :
              /\ lockLog[k].at >= cfg.lockWait
              /\ k - 1 \in LoopAttempts /\ lockLog[k - 1].res = "fail"
              \* then Who and exactly one more attempt
              /\ Len(lockLog) <= k + 2
              /\ Len(lockLog) > k => lockLog[k + 1].op = "who"
              /\ Len(lockLog) > k + 1 => IsAttempt(lockLog[k + 2])
              /\ ~InLoop /\ result[Self] # "unreadable" => Len(lockLog) = k + 2
        \* a failed attempt of the loop is followed by a sleep, by giving up
        \* the budget, or by the return of the error
        /\ \A k \in LoopAttempts :
              lockLog[k].res = "fail" =>
                 IF k < Len(lockLog) THEN lockLog[k + 1].op \in {"sleep", "expire"}
                 ELSE LogOps("expire") # {} /\ result[Self] = "locked"
        \* the error is returned after the budget only, and without the body
        /\ result[Self] = "locked" =>
              /\ LogOps("expire") # {} /\ lockLog[Len(lockLog)].res = "fail"
              /\ ~success[Self] /\ NothingRan

\* an attempt that finds the lock free acquires it and enters the body
C24_Step ==
    pc[Self] = "acquire" /\ pc'[Self] # "acquire" /\ lockFile = NoHolder =>
        lockFile' = Self /\ success'[Self] /\ pc'[Self] = BodyEntry(Self)

\* C24: with a wait budget the acquisition loop terminates: lockRun sleeps
\* min(3s, lockWait) only while the elapsed time is below the budget, then
\* gives the budget up, makes exactly one more attempt and fails without
\* entering the body; an attempt that finds the lock freed acquires it
C24_LoopTerminates == []C24_State /\ [][C24_Step]_vars /\ (InLoop ~> ~InLoop)

\* lockRun slept through its budget and failed after one more attempt, the
\* lock being held all the time
C24_Witness ==
    /\ cfg.lockWait # NIL /\ result[Self] = "locked" /\ lockFile = Other
    /\ Cardinality(LogOps("sleep")) >= 2

\* C25: after Who reported that the lock file does not exist lockRun goes on
\* to the next acquisition attempt; after any other error of Who it returns
\* that error at once, with no further attempt and without entering the body
C25_Who ==
    \A k \in LogOps("who") :
       /\ lockLog[k].res \in {"holder", "none"} =>
             IF k < Len(lockLog) THEN IsAttempt(lockLog[k + 1]) ELSE pc[Self] = "acquire"
       /\ lockLog[k].res = "error" =>
             /\ k = Len(lockLog)
             /\ pc[Self] = "done" /\ result[Self] = "unreadable"
             /\ ~success[Self] /\ released[Self] = 0
             /\ NothingRan
       /\ (k < Len(lockLog) /\ lockLog[k].res = "none") => lockLog[k + 1].res = "ok"

\* lockRun returned the error of Who in a later iteration of its loop
C25_Witness ==
    /\ result[Self] = "unreadable"
    /\ Cardinality(LogOps("who")) >= 2
    /\ lockLog[Len(lockLog)].res = "error"

\* C26 as claimed: with ForceLock and a wait budget lockRun does not attempt
\* ForceAcquire while wait budget remains
C26_AsClaimed ==
    cfg.forceLock /\ cfg.lockWait # NIL =>
        \A k \in LogOps("force") : lockLog[k].at >= cfg.lockWait

\* C26: the first attempt of lockRun is a TryAcquire; every attempt of the loop
\* is a ForceAcquire if ForceLock is set, whether wait budget remains or not,
\* and a TryAcquire if it is not set; two runs that both take the lock file are
\* in their bodies together only if one of them has ForceLock set
C26_ForceEveryAttempt ==
    /\ lockLog # <<>> => lockLog[1].op = "try"
    /\ \A k \in LoopAttempts : lockLog[k].op = "force" <=> cfg.forceLock
    /\ (InBody(Self) /\ InBody(Other) /\ UsesLockFile(Self) /\ env.dirCreatable)
          => cfg.forceLock \/ env.otherForce

\* Self took the lock by force while Other was in its body and wait budget
\* remained: both are in their bodies
C26_Witness ==
    /\ cfg.forceLock /\ cfg.lockWait # NIL /\ InBody(Self) /\ pc[Other] = "body"
    /\ \E k \in LogOps("force") : lockLog[k].res = "ok" /\ lockLog[k].at < cfg.lockWait

\* the phases that run the engine under the retry policy, and their
\* invocations that ended with an error
RetryPhases == {"check-before", "retention-before", "main", "retention-after", "check-after"}
IsAttemptOf(e, ph) == e.ph = ph /\ IsEngine(e) /\ ~IsUnlock(e)
Failures ==
    {k \in 1..Len(trace) :
        /\ trace[k].ph \in RetryPhases /\ IsAttemptOf(trace[k], trace[k].ph)
        /\ trace[k].exit # 0}

\* the invocation k was the last step of its phase, and the phase returned nil
Suppressed(k) ==
    /\ \A l \in (k + 1)..Len(trace) : trace[l].ph # trace[k].ph
    /\ pc[Self] # trace[k].ph
    /\ err # trace[k].ph

\* the invocation k was followed by an unlock, and by one that succeeded
UnlockedAfter(k) == k < Len(trace) /\ IsUnlock(trace[k + 1])
UnlockOk(k) == UnlockedAfter(k) /\ trace[k + 1].exit = 0

\* the next attempt of phase ph, or a panic in its place
GoesOn(e, ph) == IsAttemptOf(e, ph) \/ (e.ph = ph /\ e.cmd = "panic")

\* the loop of the phase went on after invocation k: another attempt followed,
\* directly or after an unlock, or is about to be made
Retried(k) ==
    \/ k < Len(trace) /\ GoesOn(trace[k + 1], trace[k].ph)
    \/ k + 1 < Len(trace) /\ UnlockedAfter(k) /\ GoesOn(trace[k + 2], trace[k].ph)
    \/ /\ pc[Self] = trace[k].ph
       /\ k = Len(trace) \/ (k + 1 = Len(trace) /\ UnlockedAfter(k))

\* the phase of invocation k ended with its error
EndsPhase(k) ==
    /\ ~Retried(k)
    /\ \A l \in (k + 1)..Len(trace) : ~IsAttemptOf(trace[l], trace[k].ph)
    /\ pc[Self] \notin PhaseSet
    /\ err = trace[k].ph

\* C27: an engine invocation that ended with an error counts as a success only
\* if it is the main command backup of a profile with a backup section and
\* NoErrorOnWarning, and its exit code is 3; no check and no retention
\* invocation is suppressed
C27_SuppressedOnlyWarning ==
    \A k \in Failures :
        Suppressed(k) =>
            /\ trace[k].ph = "main" /\ trace[k].cmd = CommandBackup
            /\ cfg.hasBackup /\ cfg.noErrorOnWarning
            /\ trace[k].exit = WarningExitCode

\* a backup that ended with exit code 3 was suppressed, and the check that
\* followed it ended the run with exit code 3
C27_Witness ==
    /\ pc[Self] = "done" /\ result[Self] = "error" /\ err = "check-after"
    /\ \E k \in Failures : trace[k].ph = "main" /\ Suppressed(k)
    /\ \E k \in Failures : trace[k].ph = "check-after" /\ trace[k].exit = WarningExitCode

\* C28: an invocation of the main command, of check or of retention that ended
\* with an error is run again only if its output shows a remote-lock failure
\* and the policy granted the retry (unlock succeeded, or a sleep of at least
\* MinResticLockRetryTime within a lockWait budget); an error without
\* remote-lock failure is followed by no sleep, no unlock and no other attempt,
\* in whichever of the phases
C28_RetryOnlyRemoteLock ==
    \A k \in Failures :
        /\ Retried(k) =>
              /\ trace[k].remote
              /\ \/ UnlockOk(k) /\ trace[k].sleep = 0
                 \/ /\ ~UnlockedAfter(k)
                    /\ cfg.lockWait # NIL /\ cfg.lockRetryAfter > 0
                    /\ trace[k].sleep >= MinResticLockRetryTime
        /\ ~trace[k].remote =>
              /\ ~Retried(k) /\ trace[k].sleep = 0
              /\ ~UnlockedAfter(k)
              /\ \A l \in (k + 1)..Len(trace) : ~IsAttemptOf(trace[l], trace[k].ph)
              /\ ~Suppressed(k) => pc[Self] \notin PhaseSet
        /\ ~Retried(k) => trace[k].sleep = 0

\* a retention invocation was run again after a sleep, and the backup that
\* followed ended with an error that was no remote-lock failure
C28_Witness ==
    /\ pc[Self] = "done" /\ err = "main"
    /\ \E k \in Failures :
         trace[k].ph = "retention-before" /\ Retried(k) /\ trace[k].sleep > 0
    /\ \E k \in Failures : trace[k].ph = "main" /\ ~trace[k].remote

\* the output of invocation k shows a remote lock that is stale
IsStale(k) ==
    /\ trace[k].remote /\ trace[k].age # NIL
    /\ trace[k].age >= Max(cfg.staleLockAge, MinResticStaleLockAge)
    /\ cfg.staleLockAge > 0

\* C29: unlock is invoked only after an invocation whose output shows a remote
\* lock of an age of at least max(ResticStaleLockAge, MinResticStaleLockAge),
\* with ResticStaleLockAge > 0 and ForceLock set, and only if no unlock was
\* invoked before in the run
C29_UnlockOnlyIfStale ==
    \A u \in Idx(IsUnlock) :
        /\ u - 1 \in Failures
        /\ trace[u - 1].ph = trace[u].ph
        /\ IsStale(u - 1)
        /\ trace[u - 1].age >= MinResticStaleLockAge
        /\ cfg.forceLock
        /\ \A l \in 1..(u - 1) : ~IsUnlock(trace[l])

\* with a threshold of the user below MinResticStaleLockAge, a lock of the age
\* of that threshold was left alone and an older one was unlocked
C29_Witness ==
    /\ cfg.staleLockAge < MinResticStaleLockAge
    /\ \E k \in Failures :
         /\ trace[k].remote /\ trace[k].age = cfg.staleLockAge /\ Retried(k)
         /\ \E u \in Idx(IsUnlock) : u > k

\* C30: an invocation whose output shows a stale lock is never followed by a
\* sleep; it is run again only after an unlock that succeeded, and otherwise
\* (unlock tried before, ForceLock not set, unlock failed) the phase ends with
\* its error, whatever lockWait budget is left
C30_StaleNeverWaits ==
    \A k \in Failures :
        IsStale(k) /\ ~Suppressed(k) =>
            /\ trace[k].sleep = 0
            /\ Retried(k) => UnlockOk(k)
            /\ UnlockOk(k) => Retried(k)
            /\ ~UnlockOk(k) => EndsPhase(k)

\* after an unlock that succeeded, a second stale lock ended the phase while
\* lockWait budget was left
C30_Witness ==
    /\ cfg.lockWait # NIL /\ cfg.lockRetryAfter > 0 /\ pc[Self] = "done"
    /\ \E k \in Failures :
         /\ IsStale(k) /\ k > 2 /\ IsUnlock(trace[k - 1]) /\ trace[k - 1].exit = 0
         /\ EndsPhase(k) /\ err = trace[k].ph
         /\ now - startTime - executionTime + MinResticLockRetryTime <= cfg.lockWait

\* the invocation k was run again without an unlock: a wait-and-retry
WaitRetried(k) == Retried(k) /\ ~UnlockedAfter(k)

C31_State ==
    /\ \A k \in Failures :
          WaitRetried(k) =>
              /\ cfg.lockWait # NIL /\ cfg.lockRetryAfter > 0
              /\ trace[k].sleep >= MinResticLockRetryTime
              /\ trace[k].sleep <= MaxResticLockRetryTime
    /\ \A k \in 1..Len(trace) : trace[k].sleep > 0 => k \in Failures /\ WaitRetried(k)

\* the delay granted by the step is within the time available when it was
\* granted: lockWait - time.Since(startTime) + executionTime
C31_Step ==
    SleepGranted =>
        LET d == trace'[Len(trace')].sleep
        IN  d <= cfg.lockWait - ((now' - d) - startTime') + executionTime'

\* C31: a wait-and-retry is granted only with a lockWait budget and
\* ResticLockRetryAfter > 0, and every granted delay d satisfies
\* MinResticLockRetryTime <= d <= MaxResticLockRetryTime and
\* d <= lockWait - elapsed + executionTime
C31_RetryDelay == []C31_State /\ [][C31_Step]_vars

\* a delay of MaxResticLockRetryTime was granted for a larger
\* ResticLockRetryAfter, and the next remote-lock failure found less than
\* MinResticLockRetryTime left and was not retried
C31_Witness ==
    /\ cfg.lockRetryAfter > MaxResticLockRetryTime /\ pc[Self] = "done"
    /\ \E k \in Failures :
         /\ trace[k].sleep = MaxResticLockRetryTime
         /\ \E j \in Failures : j > k /\ trace[j].remote /\ ~IsStale(j) /\ ~Retried(j)

\* the budget left for wait-and-retry: lockWait - elapsed + executionTime
Remaining(t, st, e) == (IF cfg.lockWait = NIL THEN 0 ELSE cfg.lockWait) - (t - st) + e

C32_State ==
    \* the zero-delay retry after unlock happens at most once
    /\ Cardinality({k \in Failures : Retried(k) /\ UnlockedAfter(k)}) <= 1
    \* every wait-retry sleeps at least MinResticLockRetryTime
    /\ \A k \in Failures : WaitRetried(k) => trace[k].sleep >= MinResticLockRetryTime
    \* the retries of all loops of the run together
    /\ Cardinality({k \in Failures : Retried(k)})
          <= (IF cfg.lockWait = NIL THEN 0 ELSE cfg.lockWait) \div MinResticLockRetryTime + 1
    \* a loop that ends without success returns the error of the engine
    /\ \A k \in Failures : ~Retried(k) /\ ~Suppressed(k) => EndsPhase(k)

\* a granted wait-retry reduces the remaining budget by its delay
C32_Step ==
    SleepGranted =>
        Remaining(now', startTime', executionTime')
            = Remaining(now, startTime, executionTime) - trace'[Len(trace')].sleep

\* C32: every retry loop terminates, whatever the engine returns: each
\* wait-retry sleeps at least MinResticLockRetryTime and reduces the remaining
\* budget by its delay, the retry after unlock happens at most once, the run
\* makes at most lockWait / MinResticLockRetryTime + 1 retries, and a loop that
\* ends without success returns the error of the engine
C32_RetryTerminates ==
    /\ []C32_State /\ [][C32_Step]_vars
    /\ <>[](pc[Self] \notin RetryPhases)

\* the engine failed with a remote-lock failure on every attempt: after the
\* retry that followed the unlock and the wait-retries the budget allows, the
\* error was returned
C32_Witness ==
    /\ pc[Self] = "done" /\ result[Self] = "error" /\ err = "main"
    /\ \A k \in 1..Len(trace) : IsAttemptOf(trace[k], "main") => trace[k].remote
    /\ Cardinality({k \in Failures : Retried(k)}) = cfg.lockWait \div MinResticLockRetryTime + 1
    /\ cfg.lockWait # NIL

(***************************************************************************)
(* Argument vectors of the retries                                         *)
(***************************************************************************)
\* how often the argument x occurs in the vector v
Occurs(v, x) == Cardinality({i \in 1..Len(v) : v[i] = x})

\* the attempts of the loop of the phase of invocation k
AttemptsOf(k) == {l \in 1..Len(trace) : IsAttemptOf(trace[l], trace[k].ph)}

\* C33: preparing a command leaves the argument builder of the caller as it
\* was: every attempt of a loop has the argument vector of the first one (the
\* extra arguments of the user and the sources are in it once at most), the
\* subcommand is the first argument of every engine invocation, and the
\* sources of the profile are in the vector only if the subcommand is backup
C33_PrepareCommand ==
    /\ args # <<>> => args[1].more = <<>>
    /\ \A k \in 1..Len(trace) : IsEngine(trace[k]) =>
          /\ trace[k].argv[1] = trace[k].cmd
          /\ \A x \in {"more", "source"} : Occurs(trace[k].argv, x) <= 1
          /\ Occurs(trace[k].argv, "more") = Len(cfg.moreArgs)
          /\ Occurs(trace[k].argv, "source") = (IF trace[k].cmd = CommandBackup THEN 1 ELSE 0)
          /\ ~IsUnlock(trace[k]) => \A l \in AttemptsOf(k) : trace[l].argv = trace[k].argv

\* a backup was retried twice, after an unlock and after a sleep, and a
\* command that is no backup was retried: three prepared vectors of one loop
C33_Witness ==
    /\ \E k \in Failures :
          /\ Cardinality(AttemptsOf(k)) >= 3
          /\ trace[k].cmd = CommandBackup /\ Len(cfg.moreArgs) > 0
          /\ \E l \in 1..Len(trace) : IsUnlock(trace[l])
    /\ pc[Self] = "done"

(***************************************************************************)
(* Environment handed to the hooks                                         *)
(***************************************************************************)
FailNames == {"ERROR", "ERROR_COMMANDLINE", "ERROR_EXIT_CODE", "ERROR_STDERR", "RESTIC_STDERR"}
IsHook(e) == e.cmd \in {"hook", "final"}
Names(e) == {v[1] : v \in e.environ}
ValueOf(e, n) == (CHOOSE v \in e.environ : v[1] = n)[2]
Panicked == \E l \in 1..Len(trace) : trace[l].cmd = "panic"
BodyFailed == \E l \in 2..Len(trace) : IsPhaseEvent(trace[l - 1]) /\ IsFailCall(trace[l])

\* C34: a run-after-fail hook receives ERROR, ERROR_COMMANDLINE,
\* ERROR_EXIT_CODE, ERROR_STDERR and RESTIC_STDERR, the last two with the same
\* value; a finally hook receives them if the body returned an error and none
\* of them after a success or a panic; a hook of the body receives none of
\* them; every hook receives PROFILE_NAME and PROFILE_COMMAND
C34_HookEnvironment ==
    \A k \in 1..Len(trace) : IsHook(trace[k]) =>
        /\ {"PROFILE_NAME", "PROFILE_COMMAND"} \subseteq Names(trace[k])
        /\ IsFailEvent(trace[k]) =>
              /\ FailNames \subseteq Names(trace[k])
              /\ ValueOf(trace[k], "RESTIC_STDERR") = ValueOf(trace[k], "ERROR_STDERR")
        /\ IsFinal(trace[k]) =>
              /\ BodyFailed /\ ~Panicked => FailNames \subseteq Names(trace[k])
              /\ ~BodyFailed \/ Panicked => FailNames \cap Names(trace[k]) = {}
              /\ FailNames \subseteq Names(trace[k]) =>
                    ValueOf(trace[k], "RESTIC_STDERR") = ValueOf(trace[k], "ERROR_STDERR")
        /\ trace[k].ph \in HookPhases => FailNames \cap Names(trace[k]) = {}

\* a hook of the body ran, the main command failed, a run-after-fail hook and
\* a finally hook ran with the description of the error
C34_Witness ==
    /\ pc[Self] = "done" /\ err = "main"
    /\ \E k \in 1..Len(trace) : IsHook(trace[k]) /\ trace[k].ph \in HookPhases
    /\ \E k \in 1..Len(trace) : IsHook(trace[k]) /\ IsFailEvent(trace[k])
    /\ \E k \in 1..Len(trace) :
          IsFinal(trace[k]) /\ <<"ERROR", "main">> \in trace[k].environ

(***************************************************************************)
(* Caller overrides of the locking                                         *)
(***************************************************************************)
LastCall == called[Len(called)]

\* C35: after any sequence of calls of ignoreLock and maxWaitOnLock the last
\* call wins: ignoreLock leaves noLock set and no budget, maxWaitOnLock(d)
\* leaves noLock unset and the budget d, none if d <= 0; noLock implies that
\* no budget is set, and a wrapper that ignores the file lock never sleeps
\* for a retry on a remote lock
C35_LockOverrides ==
    /\ cfg.noLock => cfg.lockWait = NIL /\ lockWait[Self] = NIL
    /\ called # <<>> /\ LastCall.op = "ignoreLock" => cfg.noLock /\ cfg.lockWait = NIL
    /\ called # <<>> /\ LastCall.op = "maxWaitOnLock" =>
          /\ ~cfg.noLock
          /\ cfg.lockWait = (IF LastCall.d <= 0 THEN NIL ELSE LastCall.d)
    /\ cfg.noLock => /\ \A k \in 1..Len(trace) : trace[k].sleep = 0
                     /\ \A k \in Failures : ~WaitRetried(k)

\* after maxWaitOnLock with a budget and then ignoreLock the run met a remote
\* lock that is not stale, with a retry delay configured, and ended with the
\* error of the engine
C35_Witness ==
    /\ Len(called) = 2 /\ called[1].op = "maxWaitOnLock" /\ called[1].d > 0
    /\ LastCall.op = "ignoreLock"
    /\ cfg.lockRetryAfter > 0
    /\ pc[Self] = "done" /\ err = "main"
    /\ \E k \in 1..Len(trace) :
          IsAttemptOf(trace[k], "main") /\ trace[k].remote /\ ~trace[k].stale

(***************************************************************************)
(* Warnings and remote locks                                               *)
(***************************************************************************)
\* the invocation e is a backup that ended with the warning exit code, which
\* the profile does not take for an error, and reported a remote lock
WarnedOnLock(e) ==
    /\ IsAttemptOf(e, "main") /\ e.cmd = CommandBackup
    /\ cfg.hasBackup /\ cfg.noErrorOnWarning
    /\ e.exit = WarningExitCode /\ e.remote

C36_State ==
    \A k \in 1..Len(trace) : WarnedOnLock(trace[k]) =>
        /\ trace[k].sleep = 0
        /\ ~UnlockedAfter(k)
        /\ ~Retried(k)
        /\ \A l \in (k + 1)..Len(trace) : ~IsAttemptOf(trace[l], "main")
        /\ err # "main"

C36_Step ==
    Len(trace') > Len(trace) /\ WarnedOnLock(trace'[Len(trace) + 1]) =>
        /\ doneTryUnlock' = doneTryUnlock
        /\ Len(trace') = Len(trace) + 1
        /\ now' - now <= env.maxDur
        /\ pc'[Self] # "main"

\* C36: the suppression of warnings comes before the retry: a backup that
\* exits with code 3 under NoErrorOnWarning and reports a remote lock is not
\* run again, no unlock and no sleep follow, doneTryUnlock stays as it is and
\* the main command returns nil
C36_WarningBeforeRetry == []C36_State /\ [][C36_Step]_vars

\* a backup that could have been unlocked and retried (a stale lock, ForceLock
\* and no unlock tried yet) ended with the warning and the run went on
C36_Witness ==
    /\ pc[Self] = "done" /\ err = "nil"
    /\ cfg.forceLock /\ cfg.staleLockAge > 0 /\ ~doneTryUnlock
    /\ \E k \in 1..Len(trace) :
          /\ WarnedOnLock(trace[k])
          /\ trace[k].age # NIL /\ trace[k].age >= Max(cfg.staleLockAge, MinResticStaleLockAge)

====
